---- MODULE Spec2Model ----
(***************************************************************************)
(* Model of the Fruit Jam gamepad tester: USB descriptor parsing           *)
(* (usb_descriptor.py), device classification, connection set-up and       *)
(* polling (gamepad.py) and the main event loop (code.py).                 *)
(*                                                                         *)
(* Bytes are naturals 0..255 and byte strings are sequences, so Python's   *)
(* d[i] is d[i+1] here.  Exceptions are modelled by a status string: "ok", *)
(* "ValueError", "USBError" (USBTimeoutError is a subclass of USBError and *)
(* is written "USBTimeoutError" where the code tells them apart),          *)
(* "NameError", "AttributeError".  The model starts after the imports of   *)
(* code.py, with main() running.                                           *)
(***************************************************************************)
EXTENDS Integers, Sequences, FiniteSets, TLC

VARIABLES
    bus,            \* core.find(find_all=True): the enumerated devices, in order
    device_cache,   \* main's device_cache: the fingerprints already checked
    pc,             \* where the single flow of control is
    fi,             \* find_usb_device: index (1-based) of the device examined next
    scan_result,    \* what the last find_usb_device returned (NoResult for None)
    exc,            \* the exception that ended the program ("none" while it runs)
    usb,            \* the USB operations the last step issued, in order
    cache0,         \* history: device_cache when the current invocation began
    clean,          \* history: no transfer failed so far in the current invocation
    probe,          \* history: what the last examination of a device did
    dev,            \* the InputDevice under construction or in use (NoDevice: none)
    hs,             \* init_switch_pro_gamepad / init_xinput: progress of the init
    poll,           \* int0_read_generator: its local variables
    gui,            \* main: prev and need_LF of the polling loop
    ev,             \* what main did with the last polling iteration
    pending,        \* the reports the device will deliver to the next reads
    clock,          \* elapsed_ms_generator: the time, its t0 and its last delta
    parse           \* a parser called on its own: the call and what came of it

\* the variables of a connection
conn == <<dev, hs, poll, gui, ev>>

vars == <<bus, device_cache, pc, fi, scan_result, exc, usb, cache0, clean, probe,
          dev, hs, poll, gui, ev, pending, clock, parse>>

---------------------------------------------------------------------------
\* Bytes

\* b & m /= 0, for a one-bit mask m
BitSet(b, m) == (b \div m) % 2 = 1

\* the first n bytes a transfer leaves in bytearray(n): the response, then zeros
Pad(data, n) == [i \in 1..n |-> IF i <= Len(data) THEN data[i] ELSE 0]

\* the byte strings of ss one after the other
RECURSIVE Flatten(_)
Flatten(ss) == IF ss = <<>> THEN <<>> ELSE Head(ss) \o Flatten(Tail(ss))

---------------------------------------------------------------------------
\* gamepad.py: device types

TYPE_SWITCH_PRO == 1
TYPE_ADAFRUIT_SNES == 2
TYPE_8BITDO_ZERO2 == 3
TYPE_XINPUT == 4
TYPE_BOOT_MOUSE == 5
TYPE_BOOT_KEYBOARD == 6
TYPE_HID_COMPOSITE == 7
TYPE_HID == 8

\* no parser is called on its own
NoParse == [fn |-> "none"]

\* find_usb_device returning None
NoResult == [dev |-> 0, dev_type |-> 0, interfaces |-> <<>>]

---------------------------------------------------------------------------
\* usb_descriptor.py

\* get_desc(device, desc_type, length): resp is what the device answers and io
\* how the control transfer ends ("ok", or a USBError).
get_desc(resp, length, io) ==
    IF ~(18 <= length /\ length <= 512)
    THEN [st |-> "ValueError", data |-> <<>>]
    ELSE IF io # "ok"
    THEN [st |-> "USBError", data |-> <<>>]
    ELSE [st |-> "ok", data |-> Pad(resp, length)]

\* split_desc: the loop body at cursor, in iteration i of range(limit)
RECURSIVE split_from(_, _, _)
split_from(data, cursor, i) ==
    IF i >= Len(data) \/ cursor = Len(data) THEN <<>>
    ELSE LET length == data[cursor + 1] IN
         IF length = 0 THEN <<>>
         ELSE IF cursor + length > Len(data) THEN <<>>
         ELSE <<SubSeq(data, cursor + 1, cursor + length)>>
                  \o split_from(data, cursor + length, i + 1)

split_desc_one(data) == split_from(data, 0, Len(data) - 1)

split_desc(data) == split_from(data, 0, 0)

\* dump_desc(data): the hexdump is built for a list and for a bytearray; any
\* other argument reaches log.error, and no name log exists in the module.
dump_desc(argtype) ==
    IF argtype \in {"list", "bytearray"} THEN "ok" ELSE "NameError"

ConfigDesc(d) ==
    IF Len(d) # 9 \/ d[1] # 9 \/ d[2] # 2
    THEN [ok |-> FALSE]
    ELSE [ok |-> TRUE, bNumInterfaces |-> d[5], bConfigurationValue |-> d[6],
          bMaxPower |-> d[9]]

InterfaceDesc(d) ==
    IF Len(d) # 9 \/ d[1] # 9 \/ d[2] # 4
    THEN [ok |-> FALSE]
    ELSE [ok |-> TRUE, bInterfaceNumber |-> d[3], bNumEndpoints |-> d[5],
          bInterfaceClass |-> d[6], bInterfaceSubClass |-> d[7],
          bInterfaceProtocol |-> d[8], endpoint |-> <<>>, hid |-> <<>>]

EndpointDesc(d) ==
    IF Len(d) # 7 \/ d[1] # 7 \/ d[2] # 5
    THEN [ok |-> FALSE]
    ELSE [ok |-> TRUE, bEndpointAddress |-> d[3], bmAttributes |-> d[4],
          wMaxPacketSize |-> d[6] * 256 + d[5], bInterval |-> d[7]]

---------------------------------------------------------------------------
\* hid_report.py

HID_USAGE_PAGE == \H04
HID_REPORT_ID == \H84
HID_USAGE == \H08
HID_COLLECTION == \Ha0
HID_LONG_ITEM_PREFIX == \Hfe

\* the item tags parse_item passes over without a note
HID_IGNORED ==
    {\H00, \H14, \H24, \H34, \H44, \H54, \H64, \H38, \H48, \H58, \H78, \H88, \H98}

\* parse_item(tag_type, size, data): how it ends.  data is None exactly when
\* size = 0; has_page tells whether self.usage_page has been assigned.
parse_item(tt, size, has_page) ==
    CASE tt = HID_LONG_ITEM_PREFIX -> "ValueError"
      [] tt = HID_USAGE_PAGE /\ size = 0 -> "TypeError"
      [] tt = HID_REPORT_ID /\ size = 0 -> "TypeError"
      [] tt = HID_USAGE /\ ~has_page -> "AttributeError"
      [] tt = HID_USAGE /\ size = 0 -> "TypeError"
      [] tt = HID_COLLECTION /\ size = 0 -> "TypeError"
      [] OTHER -> "ok"

hid_step_stuck(data, s) ==
    IF s.done THEN s
    ELSE LET cursor == s.cursor
             prefix == data[cursor + 1]
             size == prefix % 4
             tag_type == prefix - size
             next_cursor == cursor + size
             st == parse_item(tag_type, size, s.has_page)
             stop(e) == [s EXCEPT !.st = e, !.done = TRUE]
         IN  IF next_cursor > Len(data) THEN stop("ValueError")
             ELSE IF size = 3 /\ cursor + 5 > Len(data) THEN stop("RuntimeError")
             ELSE IF st # "ok" THEN stop(st)
             ELSE [st |-> "ok", cursor |-> next_cursor,
                   has_page |-> s.has_page \/ tag_type = HID_USAGE_PAGE,
                   items |-> IF tag_type \in HID_IGNORED THEN s.items ELSE s.items + 1,
                   done |-> next_cursor = Len(data)]

\* HIDReportDesc.__init__: one pass of the loop body from state s.  items
\* counts the notes recorded so far; done: the constructor has returned or
\* raised (st tells which).
hid_step(data, s) ==
    IF s.done THEN s
    ELSE LET cursor == s.cursor
             prefix == data[cursor + 1]
             size == prefix % 4
             tag_type == prefix - size
             next_cursor == cursor + size + 1
             st == parse_item(tag_type, size, s.has_page)
             stop(e) == [s EXCEPT !.st = e, !.done = TRUE]
         IN  IF next_cursor > Len(data) THEN stop("ValueError")
             ELSE IF size = 3 /\ cursor + 5 > Len(data) THEN stop("RuntimeError")
             ELSE IF st # "ok" THEN stop(st)
             ELSE [st |-> "ok", cursor |-> next_cursor,
                   has_page |-> s.has_page \/ tag_type = HID_USAGE_PAGE,
                   items |-> IF tag_type \in HID_IGNORED THEN s.items ELSE s.items + 1,
                   done |-> next_cursor = Len(data)]

\* the passes lo .. hi-1 of `for i in range(limit)`, in order
RECURSIVE hid_loop(_, _, _, _)
hid_loop(data, s, lo, hi) ==
    IF hi <= lo THEN s
    ELSE IF hi = lo + 1 THEN hid_step(data, s)
    ELSE LET mid == (lo + hi) \div 2
             s1 == hid_loop(data, s, lo, mid)
         IN  IF s1.done THEN s1 ELSE hid_loop(data, s1, mid, hi)

HIDReportDesc(data) ==
    hid_loop(data, [st |-> "ok", cursor |-> 0, has_page |-> FALSE, items |-> 0,
                    done |-> FALSE], 0, Len(data))

---------------------------------------------------------------------------
\* usb_descriptor.py: HID descriptor, device descriptor, configuration

\* HIDDesc.__init__: sub-descriptor i and the ones after it.  reports[n+1] is
\* what the device answers to GET_DESCRIPTOR(report) on interface n.
RECURSIVE hid_subs(_, _, _, _, _)
hid_subs(d, reports, ifnum, io, i) ==
    IF i >= d[6] THEN [st |-> "ok", subs |-> <<>>, fetched |-> 0]
    ELSE LET base == 6 + i * 3
             bDescriptorType == d[base + 1]
             wDescriptorLength == d[base + 3] * 256 + d[base + 2]
             fetch == bDescriptorType = \H22 /\ wDescriptorLength <= 512
             resp == IF ifnum + 1 \in DOMAIN reports THEN reports[ifnum + 1] ELSE <<>>
             got == IF fetch THEN get_desc(resp, wDescriptorLength, io)
                    ELSE [st |-> "ok", data |-> <<>>]
             parsed == IF got.st = "ok" /\ Len(got.data) # 0
                       THEN HIDReportDesc(got.data).st ELSE got.st
             rest == hid_subs(d, reports, ifnum, io, i + 1)
             n == IF fetch /\ got.st # "ValueError" THEN 1 ELSE 0
         IN  IF parsed # "ok" THEN [st |-> parsed, subs |-> <<>>, fetched |-> n]
             ELSE [st |-> rest.st,
                   subs |-> <<[bDescriptorType |-> bDescriptorType,
                               wDescriptorLength |-> wDescriptorLength,
                               data |-> got.data]>> \o rest.subs,
                   fetched |-> n + rest.fetched]

HIDDesc(d, reports, ifnum, io) ==
    IF Len(d) < 9 \/ d[1] < 9 \/ d[2] # \H21
    THEN [st |-> "ValueError", subs |-> <<>>, fetched |-> 0]
    ELSE IF 6 + d[6] * 3 # d[1]
    THEN [st |-> "ValueError", subs |-> <<>>, fetched |-> 0]
    ELSE hid_subs(d, reports, ifnum, io, 0)

DescriptorAnyLength(resp, io) ==
    LET got == get_desc(IF io = "zero" THEN <<>> ELSE resp, 18,
                        IF io = "zero" THEN "ok" ELSE io)
        d == got.data
    IN  IF got.st # "ok" THEN [st |-> got.st]
        ELSE IF d[1] = 0 THEN [st |-> "ValueError"]
        ELSE [st |-> "ok", device_desc_bytes |-> d,
              bDeviceClass |-> d[5], bDeviceSubClass |-> d[6],
              bDeviceProtocol |-> d[7],
              idVendor |-> d[10] * 256 + d[9],
              idProduct |-> d[12] * 256 + d[11]]

\* Descriptor.__init__: io is how the transfer ends; "zero" is a transfer that
\* returns and leaves the buffer all zero.
Descriptor(resp, io) ==
    LET got == get_desc(IF io = "zero" THEN <<>> ELSE resp, 18,
                        IF io = "zero" THEN "ok" ELSE io)
        d == got.data
    IN  IF got.st # "ok" THEN [st |-> got.st]
        ELSE IF d[1] = 0 THEN [st |-> "ValueError"]
        ELSE IF d[1] # 18 THEN [st |-> "ValueError"]
        ELSE [st |-> "ok", device_desc_bytes |-> d,
              bDeviceClass |-> d[5], bDeviceSubClass |-> d[6],
              bDeviceProtocol |-> d[7],
              idVendor |-> d[10] * 256 + d[9],
              idProduct |-> d[12] * 256 + d[11]]

to_bytes(desc) == desc.device_desc_bytes

vid_pid(desc) == <<desc.idVendor, desc.idProduct>>

dev_class_subclass_protocol(desc) ==
    <<desc.bDeviceClass, desc.bDeviceSubClass, desc.bDeviceProtocol>>

\* an exception raised inside read_configuration's loop passes through its
\* handler, which hexdumps the slice d (a memoryview) before re-raising
ReRaise(e) ==
    IF dump_desc("memoryview") = "ok" THEN e ELSE dump_desc("memoryview")

\* read_configuration: the loop over config_desc_list from slice n on
RECURSIVE read_slices(_, _, _, _, _, _)
read_slices(slices, n, bDeviceClass, reports, io, acc) ==
    IF n > Len(slices) THEN acc
    ELSE LET d == slices[n]
             tag == d[1] * 256 + d[2]
             i == Len(acc.interfaces) - 1
             last == acc.interfaces[i + 1]
             next(a) == read_slices(slices, n + 1, bDeviceClass, reports, io, a)
             fail(e) == [acc EXCEPT !.st = e]
         IN  IF Len(d) < 2 THEN next(acc)
             ELSE IF tag = \H0902
             THEN IF ConfigDesc(d).ok
                  THEN next([acc EXCEPT !.configs = Append(@, ConfigDesc(d))])
                  ELSE fail(ReRaise("ValueError"))
             ELSE IF tag = \H0904
             THEN IF InterfaceDesc(d).ok
                  THEN next([acc EXCEPT !.interfaces = Append(@, InterfaceDesc(d))])
                  ELSE fail(ReRaise("ValueError"))
             ELSE IF tag = \H0705
             THEN IF i >= 0 /\ EndpointDesc(d).ok
                  THEN next([acc EXCEPT !.interfaces[i + 1].endpoint =
                                            Append(@, EndpointDesc(d))])
                  ELSE fail(ReRaise("ValueError"))
             ELSE IF bDeviceClass = 0 /\ d[2] = \H21
             THEN IF i < 0 THEN fail(ReRaise("ValueError"))
                  ELSE LET h == HIDDesc(d, reports, last.bInterfaceNumber, io)
                           a == [acc EXCEPT !.fetched = @ + h.fetched]
                       IN  IF h.st = "ok"
                           THEN next([a EXCEPT !.interfaces[i + 1].hid =
                                                   Append(@, h.subs)])
                           ELSE IF h.st = "ValueError"
                           THEN [a EXCEPT !.st = ReRaise("ValueError")]
                           ELSE [a EXCEPT !.st = h.st]
             ELSE next(acc)

read_configuration_strict(desc, cfg, reports, ioC, ioH) ==
    LET got == get_desc(cfg, 256, ioC)
        config_desc_list == split_desc(got.data)
        empty == [st |-> "ok", configs |-> <<>>, interfaces |-> <<>>, fetched |-> 0]
        known(d) == \/ d[1] * 256 + d[2] \in {\H0902, \H0904, \H0705}
                    \/ desc.bDeviceClass = 0 /\ d[2] = \H21
    IN  IF got.st # "ok" THEN [empty EXCEPT !.st = got.st]
        ELSE IF Len(config_desc_list) = 0 THEN [empty EXCEPT !.st = "ValueError"]
        ELSE IF \E n \in DOMAIN config_desc_list : ~known(config_desc_list[n])
        THEN [empty EXCEPT !.st = ReRaise("ValueError")]
        ELSE read_slices(config_desc_list, 1, desc.bDeviceClass, reports, ioH, empty)

\* read_configuration(device): cfg is the device's configuration descriptor
\* stream, ioC and ioH how the transfers for it and for the HID report
\* descriptors end.  fetched counts the report-descriptor transfers issued.
read_configuration(desc, cfg, reports, ioC, ioH) ==
    LET got == get_desc(cfg, 256, ioC)
        config_desc_list == split_desc(got.data)
        empty == [st |-> "ok", configs |-> <<>>, interfaces |-> <<>>, fetched |-> 0]
    IN  IF got.st # "ok" THEN [empty EXCEPT !.st = got.st]
        ELSE IF Len(config_desc_list) = 0 THEN [empty EXCEPT !.st = "ValueError"]
        ELSE read_slices(config_desc_list, 1, desc.bDeviceClass, reports, ioH, empty)

\* int0_class_subclass_protocol, with -1 for None
int0_class_subclass_protocol(interfaces) ==
    LET zero == {n \in 1..Len(interfaces) : interfaces[n].bInterfaceNumber = 0}
        i == interfaces[CHOOSE n \in zero : \A m \in zero : n <= m]
    IN  IF zero = {} THEN <<-1, -1, -1>>
        ELSE <<i.bInterfaceClass, i.bInterfaceSubClass, i.bInterfaceProtocol>>

---------------------------------------------------------------------------
\* test_data.py: the reference devices, and the descriptors such devices send

KEYBOARD_REPORT0 ==
    <<
        \H05, \H01, \H09, \H06, \Ha1, \H01, \H05, \H08, \H19, \H01, \H29, \H03, \H15, \H00, \H25, \H01,
        \H75, \H01, \H95, \H03, \H91, \H02, \H95, \H05, \H91, \H01, \H05, \H07, \H19, \He0, \H29, \He7,
        \H95, \H08, \H81, \H02, \H75, \H08, \H95, \H01, \H81, \H01, \H19, \H00, \H2a, \Hff, \H00, \H26,
        \Hff, \H00, \H95, \H06, \H81, \H00, \Hc0 >>

KEYBOARD_REPORT1 ==
    <<
        \H05, \H0c, \H09, \H01, \Ha1, \H01, \H85, \H01, \H19, \H00, \H2a, \H3c, \H02, \H15, \H00, \H26,
        \H3c, \H02, \H95, \H01, \H75, \H10, \H81, \H00, \Hc0, \H05, \H01, \H09, \H80, \Ha1, \H01, \H85,
        \H02, \H19, \H81, \H29, \H83, \H25, \H01, \H75, \H01, \H95, \H03, \H81, \H02, \H95, \H05, \H81,
        \H01, \Hc0 >>

MOUSE_REPORT ==
    <<
        \H05, \H01, \H09, \H02, \Ha1, \H01, \H09, \H01, \Ha1, \H00, \H05, \H09, \H19, \H01, \H29, \H03,
        \H15, \H00, \H25, \H01, \H75, \H01, \H95, \H03, \H81, \H02, \H75, \H05, \H95, \H01, \H81, \H03,
        \H06, \H00, \Hff, \H09, \H40, \H95, \H02, \H75, \H08, \H15, \H81, \H25, \H7f, \H81, \H02, \H05,
        \H01, \H09, \H38, \H15, \H81, \H25, \H7f, \H75, \H08, \H95, \H01, \H81, \H06, \H09, \H30, \H09,
        \H31, \H16, \H01, \H80, \H26, \Hff, \H7f, \H75, \H10, \H95, \H02, \H81, \H06, \Hc0, \Hc0 >>

POWERA_REPORT ==
    <<
        \H05, \H01, \H09, \H05, \Ha1, \H01, \H15, \H00, \H25, \H01, \H35, \H00, \H45, \H01, \H75, \H01,
        \H95, \H0e, \H05, \H09, \H19, \H01, \H29, \H0e, \H81, \H02, \H95, \H02, \H81, \H01, \H05, \H01,
        \H25, \H07, \H46, \H3b, \H01, \H75, \H04, \H95, \H01, \H65, \H14, \H09, \H39, \H81, \H42, \H65,
        \H00, \H95, \H01, \H81, \H01, \H26, \Hff, \H00, \H46, \Hff, \H00, \H09, \H30, \H09, \H31, \H09,
        \H32, \H09, \H35, \H75, \H08, \H95, \H04, \H81, \H02, \H75, \H08, \H95, \H01, \H81, \H01, \H05,
        \H0c, \H09, \H00, \H15, \H80, \H25, \H7f, \H75, \H08, \H95, \H40, \Hb1, \H02, \Hc0 >>

SWITCHPRO_REPORT ==
    <<
        \H05, \H01, \H15, \H00, \H09, \H04, \Ha1, \H01, \H85, \H30, \H05, \H01, \H05, \H09, \H19, \H01,
        \H29, \H0a, \H15, \H00, \H25, \H01, \H75, \H01, \H95, \H0a, \H55, \H00, \H65, \H00, \H81, \H02,
        \H05, \H09, \H19, \H0b, \H29, \H0e, \H15, \H00, \H25, \H01, \H75, \H01, \H95, \H04, \H81, \H02,
        \H75, \H01, \H95, \H02, \H81, \H03, \H0b, \H01, \H00, \H01, \H00, \Ha1, \H00, \H0b, \H30, \H00,
        \H01, \H00, \H0b, \H31, \H00, \H01, \H00, \H0b, \H32, \H00, \H01, \H00, \H0b, \H35, \H00, \H01,
        \H00, \H15, \H00, \H27, \Hff, \Hff, \H00, \H00, \H75, \H10, \H95, \H04, \H81, \H02, \Hc0, \H0b,
        \H39, \H00, \H01, \H00, \H15, \H00, \H25, \H07, \H35, \H00, \H46, \H3b, \H01, \H65, \H14, \H75,
        \H04, \H95, \H01, \H81, \H02, \H05, \H09, \H19, \H0f, \H29, \H12, \H15, \H00, \H25, \H01, \H75,
        \H01, \H95, \H04, \H81, \H02, \H75, \H08, \H95, \H34, \H81, \H03, \H06, \H00, \Hff, \H85, \H21,
        \H09, \H01, \H75, \H08, \H95, \H3f, \H81, \H03, \H85, \H81, \H09, \H02, \H75, \H08, \H95, \H3f,
        \H81, \H03, \H85, \H01, \H09, \H03, \H75, \H08, \H95, \H3f, \H91, \H83, \H85, \H10, \H09, \H04,
        \H75, \H08, \H95, \H3f, \H91, \H83, \H85, \H80, \H09, \H05, \H75, \H08, \H95, \H3f, \H91, \H83,
        \H85, \H82, \H09, \H06, \H75, \H08, \H95, \H3f, \H91, \H83, \Hc0 >>

ZERO2_REPORT ==
    <<
        \H05, \H01, \H09, \H05, \Ha1, \H01, \H15, \H00, \H25, \H01, \H35, \H00, \H45, \H01, \H75, \H01,
        \H95, \H0f, \H05, \H09, \H19, \H01, \H29, \H0f, \H81, \H02, \H95, \H01, \H81, \H01, \H05, \H01,
        \H25, \H07, \H46, \H3b, \H01, \H75, \H04, \H95, \H01, \H65, \H14, \H09, \H39, \H81, \H42, \H65,
        \H00, \H95, \H01, \H81, \H01, \H26, \Hff, \H00, \H46, \Hff, \H00, \H09, \H30, \H09, \H31, \H09,
        \H32, \H09, \H35, \H75, \H08, \H95, \H04, \H81, \H02, \H65, \H00, \H75, \H08, \H95, \H02, \H81,
        \H01, \H05, \H08, \H09, \H43, \H15, \H00, \H26, \Hff, \H00, \H35, \H00, \H46, \Hff, \H00, \H75,
        \H08, \H95, \H02, \H91, \H82, \H09, \H44, \H91, \H82, \H09, \H45, \H91, \H82, \H09, \H46, \H91,
        \H82, \Hc0 >>

DINPUT_REPORT ==
    <<
        \H05, \H01, \H09, \H05, \Ha1, \H01, \H85, \H03, \H05, \H01, \H15, \H00, \H25, \H07, \H46, \H3b,
        \H01, \H95, \H01, \H75, \H04, \H65, \H14, \H09, \H39, \H81, \H42, \H75, \H01, \H95, \H04, \H81,
        \H01, \H15, \H00, \H26, \Hff, \H00, \H09, \H30, \H09, \H31, \H09, \H32, \H09, \H35, \H95, \H04,
        \H75, \H08, \H81, \H02, \H05, \H02, \H15, \H00, \H26, \Hff, \H00, \H09, \Hc4, \H09, \Hc5, \H95,
        \H02, \H75, \H08, \H81, \H02, \H05, \H09, \H19, \H01, \H29, \H10, \H15, \H00, \H25, \H01, \H75,
        \H01, \H95, \H10, \H81, \H02, \H05, \H06, \H09, \H20, \H15, \H00, \H25, \H64, \H75, \H08, \H95,
        \H01, \H81, \H02, \H05, \H0f, \H09, \H70, \H85, \H05, \H15, \H00, \H25, \H64, \H75, \H08, \H95,
        \H04, \H91, \H02, \H85, \H02, \H09, \H02, \H75, \H08, \H95, \H3f, \H81, \H03, \H85, \H81, \H09,
        \H03, \H75, \H08, \H95, \H3f, \H91, \H83, \Hc0 >>

\* an 18-byte device descriptor, laid out as Descriptor.__init__ reads it
DeviceDescBytes(c, s, p, vid, pid) ==
    <<18, 1, 0, 2, c, s, p, 64, vid % 256, vid \div 256, pid % 256, pid \div 256,
      0, 1, 1, 2, 0, 1>>

\* a 7-byte interrupt endpoint descriptor, as EndpointDesc.__init__ reads it
RECURSIVE EndpointBytes(_, _, _)
EndpointBytes(addrs, maxpkt, interval) ==
    IF addrs = <<>> THEN <<>>
    ELSE <<7, 5, Head(addrs), 3, maxpkt % 256, maxpkt \div 256, interval>>
             \o EndpointBytes(Tail(addrs), maxpkt, interval)

\* interface n and the ones after it: the interface descriptor, the HID
\* descriptor of an interface that has a report descriptor, the device's own
\* class-specific descriptor (extra), the endpoints
RECURSIVE InterfaceBytes(_, _, _, _)
InterfaceBytes(ifs, n, maxpkt, interval) ==
    IF n > Len(ifs) THEN <<>>
    ELSE LET f == ifs[n]
             rl == Len(f.hidreport)
         IN  <<9, 4, n - 1, 0, Len(f.endpoints), f.class, f.subclass, f.protocol, 0>>
             \o (IF rl > 0 THEN <<9, \H21, \H11, 1, 0, 1, \H22, rl % 256, rl \div 256>>
                 ELSE <<>>)
             \o f.extra
             \o EndpointBytes(f.endpoints, maxpkt, interval)
             \o InterfaceBytes(ifs, n + 1, maxpkt, interval)

\* the configuration descriptor stream: the 9-byte header, then the interfaces
ConfigBytes(ifs, maxpkt, interval) ==
    LET body == InterfaceBytes(ifs, 1, maxpkt, interval)
        total == 9 + Len(body)
    IN  <<9, 2, total % 256, total \div 256, Len(ifs), 1, 0, \H80, 50>> \o body

\* a device as the bus shows it: its descriptors, its speed, its report
\* descriptors by interface
Dev(c, s, p, vid, pid, ifs, speed, maxpkt, interval) ==
    [dd |-> DeviceDescBytes(c, s, p, vid, pid),
     cfg |-> ConfigBytes(ifs, maxpkt, interval),
     reports |-> [n \in 1..Len(ifs) |-> ifs[n].hidreport],
     speed |-> speed]

Iface(c, s, p, endpoints, hidreport) ==
    [class |-> c, subclass |-> s, protocol |-> p, endpoints |-> endpoints,
     hidreport |-> hidreport, extra |-> <<>>]

\* the class-specific descriptor (type 0x21, 17 bytes) XInput interfaces carry
XInputIf(p, endpoints) ==
    [class |-> \Hff, subclass |-> \H5d, protocol |-> p, endpoints |-> endpoints,
     hidreport |-> <<>>,
     extra |-> <<17, \H21, 0, 1, 1, \H25, \H81, \H14, 0, 0, 0, 0, \H13, 1, 8, 0, 0>>]

COMPACT_KEYBOARD ==
    Dev(0, 0, 0, \H2222, \H0099,
        <<Iface(3, 1, 1, <<\H81>>, KEYBOARD_REPORT0), Iface(3, 0, 0, <<\H82>>, KEYBOARD_REPORT1)>>,
        "low", 8, 4)

CHEAP_MOUSE ==
    Dev(0, 0, 0, \H413c, \H301a, <<Iface(3, 1, 2, <<\H81>>, MOUSE_REPORT)>>, "low", 8, 4)

POWERA ==
    Dev(0, 0, 0, \H20d6, \Ha711, <<Iface(3, 0, 0, <<\H02, \H81>>, POWERA_REPORT)>>, "full", 8, 4)

ULTIMATE_BT ==
    Dev(0, 0, 0, \H057e, \H2009, <<Iface(3, 0, 0, <<\H81, \H02>>, SWITCHPRO_REPORT)>>,
        "full", 8, 4)

ZERO2 ==
    Dev(0, 0, 0, \H2dc8, \H9018, <<Iface(3, 0, 0, <<\H81, \H02>>, ZERO2_REPORT)>>, "full", 8, 4)

SN30PRO_BT_DINPUT ==
    Dev(0, 0, 0, \H2dc8, \H6001, <<Iface(3, 0, 0, <<\H81, \H02>>, DINPUT_REPORT)>>, "full", 8, 4)

SN30PRO_BT_SWITCH ==
    Dev(0, 0, 0, \H057e, \H2009, <<Iface(3, 0, 0, <<\H81, \H02>>, SWITCHPRO_REPORT)>>,
        "full", 8, 4)

SN30PRO_BT_XINPUT ==
    Dev(\Hff, \Hff, \Hff, \H045e, \H028e,
        <<XInputIf(1, <<\H81, \H01>>), XInputIf(3, <<\H82, \H02, \H83, \H03>>),
          XInputIf(2, <<\H84>>), Iface(\Hff, \Hfd, \H13, <<>>, <<>>)>>,
        "full", 8, 4)

SN30PRO_USB ==
    Dev(\Hff, \Hff, \Hff, \H045e, \H028e,
        <<XInputIf(1, <<\H81, \H02>>), XInputIf(3, <<\H83, \H04>>),
          XInputIf(2, <<\H86>>), Iface(\Hff, \Hfd, \H13, <<>>, <<>>)>>,
        "full", 8, 4)

\* the Adafruit SNES-like gamepad of find_usb_device's table (low speed)
ADAFRUIT_SNES ==
    Dev(0, 0, 0, \H081f, \He401, <<Iface(3, 0, 0, <<\H81>>, POWERA_REPORT)>>, "low", 8, 10)

\* a hub: no rule of find_usb_device matches it
HUB ==
    Dev(9, 0, 1, \H05e3, \H0608, <<Iface(9, 0, 0, <<\H81>>, <<>>)>>, "high", 8, 4)

\* XInput signatures on a high-speed device with three interfaces
XINPUT_3IF ==
    Dev(\Hff, \Hff, \Hff, \H0e6f, \H0213,
        <<XInputIf(1, <<\H81, \H02>>), XInputIf(3, <<\H83, \H04>>), XInputIf(2, <<\H86>>)>>,
        "high", 8, 4)

\* 057e:2009 on a device with the XInput class triples
SWITCH_VENDOR ==
    Dev(\Hff, \Hff, \Hff, \H057e, \H2009,
        <<XInputIf(1, <<\H81, \H02>>), XInputIf(3, <<\H83, \H04>>),
          XInputIf(2, <<\H86>>), Iface(\Hff, \Hfd, \H13, <<>>, <<>>)>>,
        "full", 8, 4)

\* interface 0 is 03:00:00 on a device whose class triple is not 00:00:00
MISC_HID ==
    Dev(\Hef, 2, 1, \H1209, \H0001, <<Iface(3, 0, 0, <<\H81>>, POWERA_REPORT)>>, "full", 8, 4)

SUBCLASS_HID ==
    Dev(0, 1, 0, \H1209, \H0002, <<Iface(3, 0, 0, <<\H81>>, POWERA_REPORT)>>, "full", 8, 4)

\* a keyboard whose configuration stream lists an endpoint before any interface
BAD_CONFIG ==
    [COMPACT_KEYBOARD EXCEPT
        !.dd = DeviceDescBytes(0, 0, 0, \H1209, \H0003),
        !.cfg = <<9, 2, 25, 0, 1, 1, 0, \H80, 50>> \o EndpointBytes(<<\H81>>, 8, 4)
                    \o <<9, 4, 0, 0, 1, 3, 1, 1, 0>>]

TEST_DATA ==
    [Keyboard |-> COMPACT_KEYBOARD, Mouse |-> CHEAP_MOUSE, PowerA |-> POWERA,
     UltimateBT |-> ULTIMATE_BT, Zero2 |-> ZERO2, DInput |-> SN30PRO_BT_DINPUT,
     Switch |-> SN30PRO_BT_SWITCH, XInputBT |-> SN30PRO_BT_XINPUT,
     XInputUSB |-> SN30PRO_USB]

\* every device the model can put on the bus, by name
Catalog ==
    [n \in DOMAIN TEST_DATA \cup
           {"Snes", "Hub", "XInput3", "SwitchVendor", "MiscHID", "SubclassHID", "BadConfig"} |->
        CASE n = "Snes" -> ADAFRUIT_SNES
          [] n = "Hub" -> HUB
          [] n = "XInput3" -> XINPUT_3IF
          [] n = "SwitchVendor" -> SWITCH_VENDOR
          [] n = "MiscHID" -> MISC_HID
          [] n = "SubclassHID" -> SUBCLASS_HID
          [] n = "BadConfig" -> BAD_CONFIG
          [] OTHER -> TEST_DATA[n]]

---------------------------------------------------------------------------
\* gamepad.py: classification

\* a composite test that looks at the device class byte alone
is_hid_class0(desc, interfaces) ==
    /\ desc.bDeviceClass = 0
    /\ int0_class_subclass_protocol(interfaces) = <<3, 0, 0>>

is_hid_composite(desc, interfaces) ==
    /\ dev_class_subclass_protocol(desc) = <<0, 0, 0>>
    /\ int0_class_subclass_protocol(interfaces) = <<3, 0, 0>>

is_xinput_gamepad(desc, interfaces) ==
    IF dev_class_subclass_protocol(desc) # <<\Hff, \Hff, \Hff>> THEN FALSE
    ELSE IF int0_class_subclass_protocol(interfaces) = <<\Hff, \H5d, 1>> THEN TRUE
    ELSE FALSE

\* a chain that tests the XInput signature before the vendor:product table
ClassifyXInputFirst(desc, interfaces) ==
    LET int0_info == int0_class_subclass_protocol(interfaces) IN
    IF is_xinput_gamepad(desc, interfaces) THEN TYPE_XINPUT
    ELSE IF vid_pid(desc) = <<\H057e, \H2009>> THEN TYPE_SWITCH_PRO
    ELSE IF vid_pid(desc) = <<\H081f, \He401>> THEN TYPE_ADAFRUIT_SNES
    ELSE IF vid_pid(desc) = <<\H2dc8, \H9018>> THEN TYPE_8BITDO_ZERO2
    ELSE IF is_hid_composite(desc, interfaces) THEN TYPE_HID_COMPOSITE
    ELSE IF int0_info = <<3, 1, 1>> THEN TYPE_BOOT_KEYBOARD
    ELSE IF int0_info = <<3, 1, 2>> THEN TYPE_BOOT_MOUSE
    ELSE IF int0_info = <<3, 0, 0>> THEN TYPE_HID
    ELSE 0

\* find_usb_device: the if/elif chain over a parsed descriptor; 0 stands for
\* "IGNORING UNRECOGNIZED DEVICE"
Classify(desc, interfaces) ==
    LET int0_info == int0_class_subclass_protocol(interfaces) IN
    IF vid_pid(desc) = <<\H057e, \H2009>> THEN TYPE_SWITCH_PRO
    ELSE IF vid_pid(desc) = <<\H081f, \He401>> THEN TYPE_ADAFRUIT_SNES
    ELSE IF vid_pid(desc) = <<\H2dc8, \H9018>> THEN TYPE_8BITDO_ZERO2
    ELSE IF is_xinput_gamepad(desc, interfaces) THEN TYPE_XINPUT
    ELSE IF is_hid_composite(desc, interfaces) THEN TYPE_HID_COMPOSITE
    ELSE IF int0_info = <<3, 1, 1>> THEN TYPE_BOOT_KEYBOARD
    ELSE IF int0_info = <<3, 1, 2>> THEN TYPE_BOOT_MOUSE
    ELSE IF int0_info = <<3, 0, 0>> THEN TYPE_HID
    ELSE 0

\* the ScanResult tag of a device type
Tag(dev_type) ==
    CASE dev_type = TYPE_SWITCH_PRO -> "SwitchPro"
      [] dev_type = TYPE_ADAFRUIT_SNES -> "AdafruitSNES"
      [] dev_type = TYPE_8BITDO_ZERO2 -> "8BitDoZero2"
      [] dev_type = TYPE_XINPUT -> "XInput"
      [] dev_type = TYPE_HID_COMPOSITE -> "HIDComposite"
      [] dev_type = TYPE_BOOT_KEYBOARD -> "BootKeyboard"
      [] dev_type = TYPE_BOOT_MOUSE -> "BootMouse"
      [] dev_type = TYPE_HID -> "HID"
      [] OTHER -> "none"

\* find_usb_device: `if k in device_cache`
CacheHit(k, cache) == k \in cache

\* a scan that records nothing
Forget(k, cache) == cache

\* find_usb_device: `device_cache[k] = True`
Remember(k, cache) == cache \cup {k}

\* find_usb_device: what a cache hit does to the scan
OnCacheHit == "return"

\* find_usb_device: what an unrecognized device does to the scan
OnUnrecognized == "return"

\* find_usb_device: one pass of the for loop, over device.  how is
\* "return" (result is the device type, 0 for None), "next" (the except
\* clauses: logged, the loop goes on) or "raise" (exc leaves the function).
ProbeDevice(device, cache, ioD, ioC, ioH) ==
    LET desc == Descriptor(device.dd, ioD)
        k == to_bytes(desc)
        conf == read_configuration(desc, device.cfg, device.reports, ioC, ioH)
        kind == Classify(desc, conf.interfaces)
        none == [how |-> "next", result |-> 0, cache |-> cache, exc |-> "none",
                 ops |-> <<"get_device_desc">>, fp |-> <<>>, hit |-> FALSE,
                 failed |-> ioD # "ok", classified |-> FALSE, interfaces |-> <<>>]
        read == [none EXCEPT !.fp = k, !.cache = Remember(k, cache),
                    !.ops = <<"get_device_desc", "get_config_desc">>
                              \o [n \in 1..conf.fetched |-> "get_report_desc"],
                    !.failed = conf.st = "USBError"]
    IN  IF desc.st # "ok" THEN none
        ELSE IF CacheHit(k, cache)
        THEN [none EXCEPT !.how = OnCacheHit, !.fp = k, !.hit = TRUE]
        ELSE IF conf.st \in {"ValueError", "USBError"} THEN read
        ELSE IF conf.st # "ok" THEN [read EXCEPT !.how = "raise", !.exc = conf.st]
        ELSE IF kind = 0 THEN [read EXCEPT !.how = OnUnrecognized, !.classified = TRUE]
        ELSE [read EXCEPT !.how = "return", !.result = kind, !.classified = TRUE,
                          !.interfaces = conf.interfaces]


---------------------------------------------------------------------------
\* gamepad.py: InputDevice

\* an endpoint attribute that is None
NoEndpoint == [ok |-> FALSE]

\* the endpoints of the interfaces numbered 0, in order
RECURSIVE int0_endpoints(_, _)
int0_endpoints(interfaces, n) ==
    IF n > Len(interfaces) THEN <<>>
    ELSE (IF interfaces[n].bInterfaceNumber = 0 THEN interfaces[n].endpoint ELSE <<>>)
            \o int0_endpoints(interfaces, n + 1)

int0_output_endpoints(interfaces) ==
    SelectSeq(int0_endpoints(interfaces, 1), LAMBDA e : ~BitSet(e.bEndpointAddress, 128))

int0_input_endpoints(interfaces) ==
    SelectSeq(int0_endpoints(interfaces, 1), LAMBDA e : BitSet(e.bEndpointAddress, 128))

NoDevice ==
    [dev_type |-> 0, configured |-> FALSE, inited |-> FALSE,
     int0_endpoint_in |-> NoEndpoint, int0_endpoint_out |-> NoEndpoint]

\* a constructor without kind-specific initialisation
init_nothing(dev_type) == "connected"

\* InputDevice.__init__: where the constructor goes on once the endpoints are
\* chosen; "connected" is its return
init_device(dev_type) ==
    IF dev_type = TYPE_SWITCH_PRO THEN "hs_write"
    ELSE IF dev_type = TYPE_XINPUT THEN "xi_led"
    ELSE IF dev_type \in {TYPE_ADAFRUIT_SNES, TYPE_8BITDO_ZERO2, TYPE_BOOT_MOUSE,
                          TYPE_BOOT_KEYBOARD, TYPE_HID_COMPOSITE, TYPE_HID}
    THEN "connected"
    ELSE "ValueError"

\* InputDevice.__init__ up to the kind-specific initialisation.  active: the
\* core claims interface 0; io: how set_configuration ends.  configured and
\* inited are history: set_configuration has returned, the kind-specific
\* initialisation has completed.
InputDevice(sr, active, io) ==
    LET int0_ins == int0_input_endpoints(sr.interfaces)
        int0_outs == int0_output_endpoints(sr.interfaces)
        endpoint_in == IF Len(int0_ins) < 1 THEN NoEndpoint ELSE int0_ins[1]
        endpoint_out == IF Len(int0_outs) < 1 THEN NoEndpoint ELSE int0_outs[1]
        start == init_device(sr.dev_type)
        self == [dev_type |-> sr.dev_type, configured |-> TRUE,
                 inited |-> start = "connected",
                 int0_endpoint_in |-> endpoint_in, int0_endpoint_out |-> endpoint_out]
        ops == <<<<"is_kernel_driver_active", active>>>>
                   \o (IF active THEN <<<<"detach_kernel_driver">>>> ELSE <<>>)
                   \o <<<<"set_configuration">>>>
    IN  IF io # "ok" THEN [st |-> "USBError", self |-> NoDevice, pc |-> "", ops |-> ops]
        ELSE IF start = "ValueError"
        THEN [st |-> "ValueError", self |-> NoDevice, pc |-> "", ops |-> ops]
        ELSE IF start = "hs_write" /\ ~(endpoint_out.ok /\ endpoint_in.ok)
        THEN [st |-> "AttributeError", self |-> NoDevice, pc |-> "", ops |-> ops]
        ELSE IF start = "xi_led" /\ ~endpoint_in.ok
        THEN [st |-> "AttributeError", self |-> NoDevice, pc |-> "", ops |-> ops]
        ELSE [st |-> "ok", self |-> self, pc |-> start, ops |-> ops]

\* the handshake with its first two messages exchanged
messages_swapped ==
    << <<\H80, 2>>, <<\H80, 1>>, <<\H80, 3>>, <<\H80, 2>>, <<\H80, 4>>,
       <<1, 6, 0, 0, 0, 0, 0, 0, 0, 0, 3, \H30>>,
       <<1, \H0a, 0, 0, 0, 0, 0, 0, 0, 0, \H30, 1>>,
       <<1, \H0b, 0, 0, 0, 0, 0, 0, 0, 0, \H38, 1, 0, 0, \H11, \H11>> >>

\* init_switch_pro_gamepad: messages
messages ==
    << <<\H80, 1>>, <<\H80, 2>>, <<\H80, 3>>, <<\H80, 2>>, <<\H80, 4>>,
       <<1, 6, 0, 0, 0, 0, 0, 0, 0, 0, 3, \H30>>,
       <<1, \H0a, 0, 0, 0, 0, 0, 0, 0, 0, \H30, 1>>,
       <<1, \H0b, 0, 0, 0, 0, 0, 0, 0, 0, \H38, 1, 0, 0, \H11, \H11>> >>

\* one more read than the code allows for an ACK
ACK_READS_more == 8 + 1

\* init_switch_pro_gamepad: `for _ in range(8)`, the reads awaiting an ACK
ACK_READS == 8

\* one more draining read than the code makes
DRAIN_READS_more == 8 + 1

\* init_xinput: `for _ in range(8)`, the reads that drain the input pipe
DRAIN_READS == 8

\* set_xinput_led: the endpoint written and the report for player 1
XINPUT_LED_ENDPOINT == 2

set_xinput_led(player) ==
    IF player \in 1..4 THEN [st |-> "ok", report |-> <<1, 3, player + 1>>]
    ELSE [st |-> "ValueError", report |-> <<>>]

NoHandshake == [k |-> 0, tries |-> 0, sent |-> <<>>, acked |-> FALSE, failed |-> "none"]

---------------------------------------------------------------------------
\* gamepad.py: polling

\* button bitmask constants
UP == 1
DOWN == 2
LEFT == 4
RIGHT == 8
START == 16
SELECT == 32
L == 256
R == 512
B == 4096
A == 8192
Y == 16384
X == 32768

\* `v |= m` under a condition, for masks that are each or-ed at most once
Or(c, m) == IF c THEN m ELSE 0

\* a memoryview: the bytes lo .. hi-1 of one of the two buffers.  Slice is
\* Python's v[a:b].
Slice(v, a, b) ==
    LET n == v.hi - v.lo
        lo == IF a < n THEN a ELSE n
        hi == IF b < n THEN b ELSE n
    IN  [v EXCEPT !.lo = v.lo + lo, !.hi = v.lo + (IF hi < lo THEN lo ELSE hi)]

Bytes(v, p) ==
    SubSeq(IF v.buf = "odd" THEN p.data_odd ELSE p.data_even, v.lo + 1, v.hi)

filter_fn_any_id(dev_type, v, d) ==
    IF dev_type = TYPE_SWITCH_PRO
    THEN IF Len(d) = 0 THEN [st |-> "IndexError"]
         ELSE [st |-> "ok", none |-> FALSE, view |-> Slice(v, 3, 6)]
    ELSE IF dev_type = TYPE_ADAFRUIT_SNES
    THEN [st |-> "ok", none |-> FALSE, view |-> Slice(v, 0, 7)]
    ELSE IF dev_type = TYPE_8BITDO_ZERO2
    THEN [st |-> "ok", none |-> FALSE, view |-> Slice(v, 0, 3)]
    ELSE IF dev_type = TYPE_XINPUT
    THEN [st |-> "ok", none |-> FALSE, view |-> Slice(v, 2, 4)]
    ELSE [st |-> "ok", none |-> FALSE, view |-> v]

\* input_event_generator: the filter_fn handed to int0_read_generator, on the
\* bytes d of the view v
filter_fn(dev_type, v, d) ==
    IF dev_type = TYPE_SWITCH_PRO
    THEN IF Len(d) = 0 THEN [st |-> "IndexError"]
         ELSE IF d[1] # \H30 THEN [st |-> "ok", none |-> TRUE]
         ELSE [st |-> "ok", none |-> FALSE, view |-> Slice(v, 3, 6)]
    ELSE IF dev_type = TYPE_ADAFRUIT_SNES
    THEN [st |-> "ok", none |-> FALSE, view |-> Slice(v, 0, 7)]
    ELSE IF dev_type = TYPE_8BITDO_ZERO2
    THEN [st |-> "ok", none |-> FALSE, view |-> Slice(v, 0, 3)]
    ELSE IF dev_type = TYPE_XINPUT
    THEN [st |-> "ok", none |-> FALSE, view |-> Slice(v, 2, 4)]
    ELSE [st |-> "ok", none |-> FALSE, view |-> v]

normalize_switchpro_bitfield(d) ==
    IF Len(d) < 3 THEN [st |-> "IndexError"]
    ELSE [st |-> "ok",
          v |-> Or(BitSet(d[1], 1), Y) + Or(BitSet(d[1], 2), X)
                + Or(BitSet(d[1], 4), B) + Or(BitSet(d[1], 8), A)
                + Or(BitSet(d[1], 64), R)
                + Or(BitSet(d[2], 1), SELECT) + Or(BitSet(d[2], 2), START)
                + Or(BitSet(d[3], 1), DOWN) + Or(BitSet(d[3], 2), UP)
                + Or(BitSet(d[3], 4), RIGHT) + Or(BitSet(d[3], 8), LEFT)
                + Or(BitSet(d[3], 64), L)]

normalize_switchpro(d) ==
    IF Len(d) < 3 THEN [st |-> "IndexError"]
    ELSE [st |-> "ok",
          v |-> Or(d[1] = 1, Y) + Or(d[1] = 2, X) + Or(d[1] = 4, B) + Or(d[1] = 8, A)
                + Or(BitSet(d[1], 64), R)
                + Or(BitSet(d[2], 1), SELECT) + Or(BitSet(d[2], 2), START)
                + Or(BitSet(d[3], 1), DOWN) + Or(BitSet(d[3], 2), UP)
                + Or(BitSet(d[3], 4), RIGHT) + Or(BitSet(d[3], 8), LEFT)
                + Or(BitSet(d[3], 64), L)]

normalize_adasnes_halves(d) ==
    IF Len(d) < 7 THEN [st |-> "IndexError"]
    ELSE [st |-> "ok",
          v |-> Or(d[1] < \H7f, LEFT) + Or(d[1] > \H7f, RIGHT)
                + Or(d[2] < \H7f, UP) + Or(d[2] > \H7f, DOWN)
                + Or(BitSet(d[6], 16), X) + Or(BitSet(d[6], 32), A)
                + Or(BitSet(d[6], 64), B) + Or(BitSet(d[6], 128), Y)
                + Or(BitSet(d[7], 1), L) + Or(BitSet(d[7], 2), R)
                + Or(BitSet(d[7], 16), SELECT) + Or(BitSet(d[7], 32), START)]

normalize_adasnes(d) ==
    IF Len(d) < 7 THEN [st |-> "IndexError"]
    ELSE [st |-> "ok",
          v |-> Or(d[1] = 0, LEFT) + Or(d[1] = \Hff, RIGHT)
                + Or(d[2] = 0, UP) + Or(d[2] = \Hff, DOWN)
                + Or(BitSet(d[6], 16), X) + Or(BitSet(d[6], 32), A)
                + Or(BitSet(d[6], 64), B) + Or(BitSet(d[6], 128), Y)
                + Or(BitSet(d[7], 1), L) + Or(BitSet(d[7], 2), R)
                + Or(BitSet(d[7], 16), SELECT) + Or(BitSet(d[7], 32), START)]

normalize_zero2(d) ==
    IF Len(d) < 3 THEN [st |-> "IndexError"]
    ELSE [st |-> "ok",
          v |-> Or(BitSet(d[1], 1), A) + Or(BitSet(d[1], 2), B)
                + Or(BitSet(d[1], 8), X) + Or(BitSet(d[1], 16), Y)
                + Or(BitSet(d[1], 64), L) + Or(BitSet(d[1], 128), R)
                + Or(BitSet(d[2], 4), SELECT) + Or(BitSet(d[2], 8), START)
                + (CASE d[3] = 0 -> UP
                     [] d[3] = 1 -> UP + RIGHT
                     [] d[3] = 2 -> RIGHT
                     [] d[3] = 3 -> DOWN + RIGHT
                     [] d[3] = 4 -> DOWN
                     [] d[3] = 5 -> DOWN + LEFT
                     [] d[3] = 6 -> LEFT
                     [] d[3] = 7 -> UP + LEFT
                     [] OTHER -> 0)]

normalize_xinput_be(d) ==
    IF Len(d) < 2 THEN [st |-> "RuntimeError"]
    ELSE [st |-> "ok", v |-> 256 * d[1] + d[2]]

\* unpack_from('<H', d, 0)[0]
normalize_xinput(d) ==
    IF Len(d) < 2 THEN [st |-> "RuntimeError"]
    ELSE [st |-> "ok", v |-> d[1] + 256 * d[2]]

\* input_event_generator: what the generator chain yields for the report d
\* that int0_read_generator yielded
normalize(dev_type, d) ==
    IF dev_type = TYPE_SWITCH_PRO THEN normalize_switchpro(d)
    ELSE IF dev_type = TYPE_ADAFRUIT_SNES THEN normalize_adasnes(d)
    ELSE IF dev_type = TYPE_8BITDO_ZERO2 THEN normalize_zero2(d)
    ELSE IF dev_type = TYPE_XINPUT THEN normalize_xinput(d)
    ELSE [st |-> "ok", v |-> d]

\* ticks_ms: the millisecond count of the board, which rolls over at 2**29
TICKS_PERIOD == 2 ^ 29

ticks_ms(now) == now % TICKS_PERIOD

\* elapsed_ms_generator: `mask = 0x3fffffff`
mask == \H3fffffff

\* elapsed_ms_generator: `delta = (t1 - t0) & mask`, the low bits of the
\* difference, which may be negative
elapsed_delta(t0, t1) == (t1 - t0) % (mask + 1)

\* no elapsed_ms_generator is running; now is the time in ms since power-up
NoClock == [started |-> FALSE, now |-> 0]

\* elapsed_ms_generator: `t0 = ms()`
elapsed_ms_start(c) ==
    [started |-> TRUE, now |-> c.now, t0 |-> ticks_ms(c.now), delta |-> 0, real |-> 0]

\* elapsed_ms_generator: one pass of its loop, d ms after the last sample;
\* real is history, the time that really passed between the two samples
elapsed_ms_next(c, d) ==
    LET t1 == ticks_ms(c.now + d) IN
    [started |-> TRUE, now |-> c.now + d, t0 |-> t1,
     delta |-> elapsed_delta(c.t0, t1), real |-> d]

\* int0_read_generator: the polling period in ms
poll_interval(speed, bInterval) ==
    IF speed = "high" THEN (2 * 2 ^ (bInterval - 1)) \div 8 ELSE bInterval

Min64(n) == IF n < 64 THEN n ELSE 64

NoPoll == [started |-> FALSE]

\* int0_read_generator: the statements before the polling loop
int0_read_start(self, speed) ==
    LET max_packet == Min64(self.int0_endpoint_in.wMaxPacketSize) IN
    [started |-> TRUE,
     in_addr |-> self.int0_endpoint_in.bEndpointAddress,
     interval |-> poll_interval(speed, self.int0_endpoint_in.bInterval),
     odd |-> TRUE,
     data_odd |-> [i \in 1..max_packet |-> 0],
     data_even |-> [i \in 1..max_packet |-> 0],
     prev_report |-> [buf |-> "even", lo |-> 0, hi |-> max_packet],
     poll_ms |-> 0]

int0_read_no_reset(dev_type, p, delta, io, data) ==
    LET ms == p.poll_ms + delta
        buf == IF p.odd THEN p.data_odd ELSE p.data_even
        n == IF Len(data) < Len(buf) THEN Len(data) ELSE Len(buf)
        filled == [i \in 1..Len(buf) |-> IF i <= n THEN data[i] ELSE buf[i]]
        q == IF p.odd THEN [p EXCEPT !.poll_ms = 0, !.data_odd = filled]
             ELSE [p EXCEPT !.poll_ms = 0, !.data_even = filled]
        mv == [buf |-> IF p.odd THEN "odd" ELSE "even", lo |-> 0, hi |-> n]
        f == filter_fn(dev_type, mv, Bytes(mv, q))
    IN  IF ms < p.interval
        THEN [st |-> "ok", none |-> TRUE, read |-> FALSE, p |-> [p EXCEPT !.poll_ms = ms]]
        ELSE IF io = "timeout"
        THEN [st |-> "ok", none |-> TRUE, read |-> TRUE, p |-> [p EXCEPT !.poll_ms = ms]]
        ELSE IF io = "error"
        THEN [st |-> "USBError", none |-> TRUE, read |-> TRUE, p |-> p]
        ELSE IF f.st # "ok"
        THEN [st |-> f.st, none |-> TRUE, read |-> TRUE, p |-> q]
        ELSE IF f.none \/ Bytes(f.view, q) = Bytes(q.prev_report, q)
        THEN [st |-> "ok", none |-> TRUE, read |-> TRUE, p |-> q]
        ELSE [st |-> "ok", none |-> FALSE, read |-> TRUE, report |-> f.view,
              p |-> [q EXCEPT !.prev_report = f.view, !.odd = ~p.odd]]

int0_read_one_buffer(dev_type, p, delta, io, data) ==
    LET ms == p.poll_ms + delta
        buf == IF p.odd THEN p.data_odd ELSE p.data_even
        n == IF Len(data) < Len(buf) THEN Len(data) ELSE Len(buf)
        filled == [i \in 1..Len(buf) |-> IF i <= n THEN data[i] ELSE buf[i]]
        q == IF p.odd THEN [p EXCEPT !.poll_ms = 0, !.data_odd = filled]
             ELSE [p EXCEPT !.poll_ms = 0, !.data_even = filled]
        mv == [buf |-> IF p.odd THEN "odd" ELSE "even", lo |-> 0, hi |-> n]
        f == filter_fn(dev_type, mv, Bytes(mv, q))
    IN  IF ms < p.interval
        THEN [st |-> "ok", none |-> TRUE, read |-> FALSE, p |-> [p EXCEPT !.poll_ms = ms]]
        ELSE IF io = "timeout"
        THEN [st |-> "ok", none |-> TRUE, read |-> TRUE, p |-> [p EXCEPT !.poll_ms = 0]]
        ELSE IF io = "error"
        THEN [st |-> "USBError", none |-> TRUE, read |-> TRUE, p |-> p]
        ELSE IF f.st # "ok"
        THEN [st |-> f.st, none |-> TRUE, read |-> TRUE, p |-> q]
        ELSE IF f.none \/ Bytes(f.view, q) = Bytes(q.prev_report, q)
        THEN [st |-> "ok", none |-> TRUE, read |-> TRUE, p |-> q]
        ELSE [st |-> "ok", none |-> FALSE, read |-> TRUE, report |-> f.view,
              p |-> [q EXCEPT !.prev_report = f.view]]

\* a polling loop that yields every report the filter lets through
int0_read_every_report(dev_type, p, delta, io, data) ==
    LET ms == p.poll_ms + delta
        buf == IF p.odd THEN p.data_odd ELSE p.data_even
        n == IF Len(data) < Len(buf) THEN Len(data) ELSE Len(buf)
        filled == [i \in 1..Len(buf) |-> IF i <= n THEN data[i] ELSE buf[i]]
        q == IF p.odd THEN [p EXCEPT !.poll_ms = 0, !.data_odd = filled]
             ELSE [p EXCEPT !.poll_ms = 0, !.data_even = filled]
        mv == [buf |-> IF p.odd THEN "odd" ELSE "even", lo |-> 0, hi |-> n]
        f == filter_fn(dev_type, mv, Bytes(mv, q))
    IN  IF ms < p.interval
        THEN [st |-> "ok", none |-> TRUE, read |-> FALSE, p |-> [p EXCEPT !.poll_ms = ms]]
        ELSE IF io = "timeout"
        THEN [st |-> "ok", none |-> TRUE, read |-> TRUE, p |-> [p EXCEPT !.poll_ms = 0]]
        ELSE IF io = "error"
        THEN [st |-> "USBError", none |-> TRUE, read |-> TRUE, p |-> p]
        ELSE IF f.st # "ok"
        THEN [st |-> f.st, none |-> TRUE, read |-> TRUE, p |-> q]
        ELSE IF f.none
        THEN [st |-> "ok", none |-> TRUE, read |-> TRUE, p |-> q]
        ELSE [st |-> "ok", none |-> FALSE, read |-> TRUE, report |-> f.view,
              p |-> [q EXCEPT !.prev_report = f.view, !.odd = ~p.odd]]

\* int0_read_generator: one pass of the polling loop, up to its yield.  delta
\* is next(poll_dt); io and data are how the read ends and what it delivers.
\* none: None is yielded; read: dev_read was called.
int0_read(dev_type, p, delta, io, data) ==
    LET ms == p.poll_ms + delta
        buf == IF p.odd THEN p.data_odd ELSE p.data_even
        n == IF Len(data) < Len(buf) THEN Len(data) ELSE Len(buf)
        filled == [i \in 1..Len(buf) |-> IF i <= n THEN data[i] ELSE buf[i]]
        q == IF p.odd THEN [p EXCEPT !.poll_ms = 0, !.data_odd = filled]
             ELSE [p EXCEPT !.poll_ms = 0, !.data_even = filled]
        mv == [buf |-> IF p.odd THEN "odd" ELSE "even", lo |-> 0, hi |-> n]
        f == filter_fn(dev_type, mv, Bytes(mv, q))
    IN  IF ms < p.interval
        THEN [st |-> "ok", none |-> TRUE, read |-> FALSE, p |-> [p EXCEPT !.poll_ms = ms]]
        ELSE IF io = "timeout"
        THEN [st |-> "ok", none |-> TRUE, read |-> TRUE, p |-> [p EXCEPT !.poll_ms = 0]]
        ELSE IF io = "error"
        THEN [st |-> "USBError", none |-> TRUE, read |-> TRUE, p |-> p]
        ELSE IF f.st # "ok"
        THEN [st |-> f.st, none |-> TRUE, read |-> TRUE, p |-> q]
        ELSE IF f.none \/ Bytes(f.view, q) = Bytes(q.prev_report, q)
        THEN [st |-> "ok", none |-> TRUE, read |-> TRUE, p |-> q]
        ELSE [st |-> "ok", none |-> FALSE, read |-> TRUE, report |-> f.view,
              p |-> [q EXCEPT !.prev_report = f.view, !.odd = ~p.odd]]

---------------------------------------------------------------------------
\* code.py: main

NoGui == [prev |-> 0, need_LF |-> FALSE]
NoEvent == [what |-> "none", shown |-> FALSE]

\* main: the body of `for data in dev.input_event_generator()` for the yielded
\* y, with Button 1 pressed or not.  shown: the GUI was updated.
loop_body(y, pressed, g) ==
    IF pressed THEN [what |-> "break", shown |-> FALSE, gui |-> g]
    ELSE IF y.none THEN [what |-> "skip", shown |-> FALSE, gui |-> g]
    ELSE IF y.bytes
    THEN [what |-> "bytes", shown |-> TRUE, gui |-> [g EXCEPT !.need_LF = TRUE]]
    ELSE LET show == g.prev # y.v \/ ~g.need_LF IN
         [what |-> "bits", shown |-> show,
          gui |-> [prev |-> y.v, need_LF |-> IF show THEN TRUE ELSE g.need_LF]]

\* an except clause that keeps the cache
ExceptKeepCache(e, cache) ==
    IF e \in {"USBError", "USBTimeoutError"}
    THEN [pc |-> "call", exc |-> "none", cache |-> cache]
    ELSE [pc |-> "stopped", exc |-> e, cache |-> cache]

\* main: an exception e raised inside the try block.  The except clause takes
\* USBError (USBTimeoutError is a USBError); anything else ends the program.
Except(e, cache) ==
    IF e \in {"USBError", "USBTimeoutError"}
    THEN [pc |-> "call", exc |-> "none", cache |-> {}]
    ELSE [pc |-> "stopped", exc |-> e, cache |-> cache]

\* main: `device_cache = {}` after the polling loop was left by break
AfterBreak(cache) == {}

---------------------------------------------------------------------------
\* The bus scan as a state machine

\* how a control transfer for a descriptor can end
DescIO == {"ok", "zero", "error"}
XferIO == {"ok", "error"}

NoProbe == [fp |-> <<>>, hit |-> FALSE, classified |-> FALSE, dev |-> 0]

\* main: the top of the while loop, up to the call of find_usb_device
FindBegin ==
    /\ pc = "call"
    /\ pc' = "find"
    /\ fi' = 1
    /\ cache0' = device_cache
    /\ clean' = TRUE
    /\ usb' = << <<"find">> >>
    /\ probe' = NoProbe
    /\ scan_result' = NoResult
    /\ UNCHANGED <<bus, parse, pending, clock, device_cache, exc, conn>>

\* find_usb_device: the loop body for the device at position fi.  An exception
\* that leaves find_usb_device is none of main's USBError: the program stops.
FindDevice ==
    /\ pc = "find"
    /\ fi <= Len(bus)
    /\ \E ioD \in DescIO, ioC \in XferIO, ioH \in XferIO :
         \E r \in {ProbeDevice(Catalog[bus[fi]], device_cache, ioD, ioC, ioH)} :
         /\ device_cache' = r.cache
         /\ usb' = [n \in 1..Len(r.ops) |-> <<r.ops[n]>>]
         /\ clean' = (clean /\ ~r.failed)
         /\ probe' = [fp |-> r.fp, hit |-> r.hit, classified |-> r.classified, dev |-> fi]
         /\ \/ /\ r.how = "return"
               /\ pc' = "returned"
               /\ scan_result' = [dev |-> IF r.result = 0 THEN 0 ELSE fi,
                                  dev_type |-> r.result, interfaces |-> r.interfaces]
               /\ UNCHANGED <<fi, exc>>
            \/ /\ r.how = "next"
               /\ fi' = fi + 1
               /\ UNCHANGED <<pc, scan_result, exc>>
            \/ /\ r.how = "raise"
               /\ pc' = "stopped"
               /\ exc' = r.exc
               /\ UNCHANGED <<fi, scan_result>>
    /\ UNCHANGED <<bus, parse, pending, clock, cache0, conn>>

\* find_usb_device: the loop is exhausted, `return None`
FindEnd ==
    /\ pc = "find"
    /\ fi > Len(bus)
    /\ pc' = "returned"
    /\ scan_result' = NoResult
    /\ usb' = <<>>
    /\ UNCHANGED <<bus, parse, pending, clock, device_cache, fi, exc, cache0, clean, probe, conn>>

\* a caller that calls find_usb_device again with the same cache
CallAgain ==
    /\ pc = "returned"
    /\ pc' = "call"
    /\ usb' = <<>>
    /\ UNCHANGED <<bus, parse, pending, clock, device_cache, fi, scan_result, exc, cache0, clean, probe, conn>>

MaxBus == 2

Buses == UNION {[1..n -> DOMAIN Catalog] : n \in 0..MaxBus}

InitScan ==
    /\ bus \in Buses
    /\ device_cache = {}
    /\ pc = "call"
    /\ fi = 1
    /\ scan_result = NoResult
    /\ exc = "none"
    /\ usb = <<>>
    /\ cache0 = {}
    /\ clean = TRUE
    /\ probe = NoProbe
    /\ dev = NoDevice
    /\ hs = NoHandshake
    /\ poll = NoPoll
    /\ gui = NoGui
    /\ ev = NoEvent
    /\ pending = <<>>
    /\ parse = NoParse
    /\ clock = NoClock

NextScan == FindBegin \/ FindDevice \/ FindEnd \/ CallAgain

SpecScan == InitScan /\ [][NextScan]_vars

---------------------------------------------------------------------------
\* The main loop as a state machine

\* how an interrupt transfer can end
XferEnd == {"ok", "timeout", "error"}

\* what next(poll_dt) can give, in ms
Deltas == {2, 4}

\* what a device can deliver to a read of its interface-0 input endpoint
ReadData ==
    { <<>>,
      <<\H30, 0, 0, 1, 0, 2>>,
      <<\H30, 1, 0, 1, 0, 2>>,
      <<\H30, 2, 0, 0, 0, 0>>,
      <<\H21, 0>> }

\* exception e leaves the try block of main during a connection whose init
\* record is h
Raise(e, h) ==
    LET x == Except(e, device_cache) IN
    /\ pc' = x.pc
    /\ exc' = x.exc
    /\ device_cache' = x.cache
    /\ hs' = IF x.pc = "call" THEN NoHandshake ELSE h
    /\ dev' = NoDevice
    /\ poll' = NoPoll
    /\ gui' = NoGui
    /\ ev' = [what |-> "except", shown |-> FALSE, data |-> e]

\* main: find_usb_device returned None: sleep, continue
ScanNone ==
    /\ pc = "returned"
    /\ scan_result = NoResult
    /\ pc' = "call"
    /\ usb' = <<>>
    /\ UNCHANGED <<bus, parse, pending, clock, device_cache, fi, scan_result, exc, cache0, clean, probe, conn>>

\* main: `dev = InputDevice(scan_result)`, up to the kind-specific init
Configure ==
    /\ pc = "returned"
    /\ scan_result # NoResult
    /\ \E active \in BOOLEAN, io \in XferIO :
         LET r == InputDevice(scan_result, active, io) IN
         /\ usb' = r.ops
         /\ IF r.st # "ok" THEN Raise(r.st, NoHandshake)
            ELSE /\ pc' = r.pc
                 /\ dev' = r.self
                 /\ hs' = [NoHandshake EXCEPT !.k = IF r.pc = "hs_write" THEN 1 ELSE 0]
                 /\ poll' = NoPoll
                 /\ gui' = NoGui
                 /\ ev' = NoEvent
                 /\ UNCHANGED <<device_cache, exc>>
    /\ UNCHANGED <<bus, parse, pending, clock, fi, scan_result, cache0, clean, probe>>

\* init_switch_pro_gamepad: device.write of message hs.k
HsWrite ==
    /\ pc = "hs_write"
    /\ \E io \in XferEnd :
         LET out_addr == dev.int0_endpoint_out.bEndpointAddress
             msg == messages[hs.k]
             wrote == [hs EXCEPT !.sent = Append(@, <<out_addr, msg>>),
                                 !.tries = 0, !.acked = FALSE]
         IN  /\ usb' = << <<"write", out_addr, msg>> >>
             /\ IF io = "timeout" THEN Raise("ValueError", [wrote EXCEPT !.failed = "wr"])
                ELSE IF io = "error" THEN Raise("USBError", wrote)
                ELSE /\ hs' = wrote
                     /\ pc' = "hs_read"
                     /\ UNCHANGED <<device_cache, exc, dev, poll, gui, ev>>
    /\ UNCHANGED <<bus, parse, pending, clock, fi, scan_result, cache0, clean, probe>>

\* init_switch_pro_gamepad: one device.read awaiting the ACK of message hs.k.
\* With the last ACK the method returns and its loop counter is gone.
HsRead ==
    /\ pc = "hs_read"
    /\ \E io \in XferEnd :
         LET in_addr == dev.int0_endpoint_in.bEndpointAddress
             tried == [hs EXCEPT !.tries = @ + 1]
         IN  /\ usb' = << <<"read", in_addr>> >>
             /\ IF io = "error" THEN Raise("USBError", tried)
                ELSE IF io = "timeout" /\ tried.tries >= ACK_READS
                THEN Raise("ValueError", [tried EXCEPT !.failed = "rd"])
                ELSE IF io = "timeout"
                THEN /\ hs' = tried
                     /\ UNCHANGED <<pc, device_cache, exc, dev, poll, gui, ev>>
                ELSE IF hs.k >= Len(messages)
                THEN /\ hs' = [tried EXCEPT !.acked = TRUE, !.tries = 0]
                     /\ pc' = "connected"
                     /\ dev' = [dev EXCEPT !.inited = TRUE]
                     /\ UNCHANGED <<device_cache, exc, poll, gui, ev>>
                ELSE /\ hs' = [tried EXCEPT !.acked = TRUE, !.k = @ + 1]
                     /\ pc' = "hs_write"
                     /\ UNCHANGED <<device_cache, exc, dev, poll, gui, ev>>
    /\ UNCHANGED <<bus, parse, pending, clock, fi, scan_result, cache0, clean, probe>>

\* init_xinput: set_xinput_led(self.device, self.player), player 1
XInputLed ==
    /\ pc = "xi_led"
    /\ \E io \in XferEnd :
         LET led == set_xinput_led(1)
             wrote == [hs EXCEPT !.sent = Append(@, <<XINPUT_LED_ENDPOINT, led.report>>)]
         IN  /\ usb' = << <<"write", XINPUT_LED_ENDPOINT, led.report>> >>
             /\ IF led.st # "ok" THEN Raise(led.st, hs)
                ELSE IF io = "timeout" THEN Raise("USBTimeoutError", wrote)
                ELSE IF io = "error" THEN Raise("USBError", wrote)
                ELSE /\ hs' = wrote
                     /\ pc' = "xi_drain"
                     /\ UNCHANGED <<device_cache, exc, dev, poll, gui, ev>>
    /\ UNCHANGED <<bus, parse, pending, clock, fi, scan_result, cache0, clean, probe>>

\* init_xinput: one read of the loop that drains the input pipe
XInputDrain ==
    /\ pc = "xi_drain"
    /\ \E io \in XferEnd :
         LET in_addr == dev.int0_endpoint_in.bEndpointAddress
             tried == [hs EXCEPT !.tries = @ + 1]
         IN  /\ usb' = << <<"read", in_addr>> >>
             /\ IF io = "error" THEN Raise("USBError", tried)
                ELSE IF tried.tries >= DRAIN_READS
                THEN /\ hs' = tried
                     /\ pc' = "connected"
                     /\ dev' = [dev EXCEPT !.inited = TRUE]
                     /\ UNCHANGED <<device_cache, exc, poll, gui, ev>>
                ELSE /\ hs' = tried
                     /\ UNCHANGED <<pc, device_cache, exc, dev, poll, gui, ev>>
    /\ UNCHANGED <<bus, parse, pending, clock, fi, scan_result, cache0, clean, probe>>

\* main: from the constructor's return to the for statement
StartPolling ==
    /\ pc = "connected"
    /\ pc' = "poll"
    /\ gui' = [prev |-> 0, need_LF |-> FALSE]
    /\ poll' = NoPoll
    /\ usb' = <<>>
    /\ UNCHANGED <<bus, parse, pending, clock, device_cache, fi, scan_result, exc, cache0, clean, probe,
                   dev, hs, ev>>

\* the generator's locals: set up by its first next(), kept afterwards
PollState ==
    IF poll.started THEN poll
    ELSE int0_read_start(dev, Catalog[bus[scan_result.dev]].speed)

\* `if poll_ms < interval: yield None`: no transfer is made in this pass, and
\* how a transfer would have ended does not matter
Throttled(delta) ==
    dev.int0_endpoint_in.ok /\ PollState.poll_ms + delta < PollState.interval

\* main: one iteration of the for loop: next() of the generator chain, then
\* the loop body, when next(poll_dt) gives delta, Button 1 is pressed or not,
\* and the read, if one is made, ends as io and delivers data
ForIteration(delta, pressed, io, data) ==
    LET p == PollState
        r == int0_read(dev.dev_type, p, delta, io, data)
        n == IF r.none THEN [st |-> r.st, v |-> 0]
             ELSE normalize(dev.dev_type, Bytes(r.report, r.p))
        y == [none |-> r.none, v |-> n.v,
              bytes |-> dev.dev_type \notin {TYPE_SWITCH_PRO, TYPE_ADAFRUIT_SNES,
                                             TYPE_8BITDO_ZERO2, TYPE_XINPUT}]
        m == loop_body(y, pressed, gui)
    IN  /\ IF ~dev.int0_endpoint_in.ok
           THEN usb' = <<>> /\ Raise("AttributeError", hs)
           ELSE /\ usb' = IF r.read THEN << <<"read", p.in_addr, p.interval>> >> ELSE <<>>
                /\ IF n.st # "ok" THEN Raise(n.st, hs)
                   ELSE IF m.what = "break"
                   THEN /\ pc' = "call"
                        /\ device_cache' = AfterBreak(device_cache)
                        /\ dev' = NoDevice
                        /\ hs' = NoHandshake
                        /\ poll' = NoPoll
                        /\ gui' = NoGui
                        /\ ev' = [what |-> "break", shown |-> m.shown]
                        /\ UNCHANGED exc
                   ELSE /\ poll' = r.p
                        /\ gui' = m.gui
                        /\ ev' = [what |-> m.what, shown |-> m.shown]
                        /\ UNCHANGED <<pc, device_cache, exc, dev, hs>>
        /\ UNCHANGED <<bus, parse, clock, fi, scan_result, cache0, clean, probe>>

\* an iteration of the for loop with any device behaviour
PollStep ==
    /\ pc = "poll"
    /\ \E delta \in Deltas, pressed \in BOOLEAN :
       \E io \in IF Throttled(delta) THEN {"ok"} ELSE XferEnd :
       \E data \in IF Throttled(delta) \/ io # "ok" THEN {<<>>} ELSE ReadData :
         ForIteration(delta, pressed, io, data)
    /\ UNCHANGED pending

\* the devices attached in a session
Attached == {"Switch", "XInputUSB", "Keyboard", "Hub", "BadConfig"}

Init ==
    /\ bus \in UNION {[1..n -> Attached] : n \in 0..MaxBus}
    /\ device_cache = {}
    /\ pc = "call"
    /\ fi = 1
    /\ scan_result = NoResult
    /\ exc = "none"
    /\ usb = <<>>
    /\ cache0 = {}
    /\ clean = TRUE
    /\ probe = NoProbe
    /\ dev = NoDevice
    /\ hs = NoHandshake
    /\ poll = NoPoll
    /\ gui = NoGui
    /\ ev = NoEvent
    /\ pending = <<>>
    /\ parse = NoParse
    /\ clock = NoClock

Next ==
    \/ FindBegin \/ FindDevice \/ FindEnd \/ ScanNone \/ Configure
    \/ HsWrite \/ HsRead \/ XInputLed \/ XInputDrain \/ StartPolling \/ PollStep

Spec == Init /\ [][Next]_vars

---------------------------------------------------------------------------
\* The main loop with one device on the bus, for every kind of device

Connected ==
    {"Switch", "XInputUSB", "XInputBT", "XInput3", "Snes", "Zero2", "Keyboard",
     "Mouse", "PowerA", "Hub", "BadConfig"}

InitConn ==
    /\ bus \in {<<n>> : n \in Connected}
    /\ device_cache = {}
    /\ pc = "call"
    /\ fi = 1
    /\ scan_result = NoResult
    /\ exc = "none"
    /\ usb = <<>>
    /\ cache0 = {}
    /\ clean = TRUE
    /\ probe = NoProbe
    /\ dev = NoDevice
    /\ hs = NoHandshake
    /\ poll = NoPoll
    /\ gui = NoGui
    /\ ev = NoEvent
    /\ pending = <<>>
    /\ parse = NoParse
    /\ clock = NoClock

SpecConn == InitConn /\ [][Next]_vars

---------------------------------------------------------------------------
\* elapsed_ms_generator as a state machine, around the rollover of ticks_ms

\* how far from the rollover the time starts and ends, in ms
ClockWindow == 12

\* the longest time between two samples, in ms
MaxStep == 4

\* the generator's first next(): `t0 = ms()`
TimerStart ==
    /\ pc = "timer"
    /\ ~clock.started
    /\ clock' = elapsed_ms_start(clock)
    /\ UNCHANGED <<bus, parse, pending, device_cache, pc, fi, scan_result, exc, usb, cache0,
                   clean, probe, conn>>

\* each next(): `t1 = ms()` ... `yield delta`
TimerNext ==
    /\ pc = "timer"
    /\ clock.started
    /\ \E d \in 0..MaxStep :
         /\ clock.now + d <= TICKS_PERIOD + ClockWindow
         /\ clock' = elapsed_ms_next(clock, d)
    /\ UNCHANGED <<bus, parse, pending, device_cache, pc, fi, scan_result, exc, usb, cache0,
                   clean, probe, conn>>

InitTime ==
    /\ clock \in {[started |-> FALSE, now |-> n] :
                    n \in (TICKS_PERIOD - ClockWindow)..(TICKS_PERIOD - 1)}
    /\ pc = "timer"
    /\ bus = <<>>
    /\ pending = <<>>
    /\ parse = NoParse
    /\ device_cache = {}
    /\ fi = 1
    /\ scan_result = NoResult
    /\ exc = "none"
    /\ usb = <<>>
    /\ cache0 = {}
    /\ clean = TRUE
    /\ probe = NoProbe
    /\ dev = NoDevice
    /\ hs = NoHandshake
    /\ poll = NoPoll
    /\ gui = NoGui
    /\ ev = NoEvent

NextTime == TimerStart \/ TimerNext

SpecTime == InitTime /\ [][NextTime]_vars

---------------------------------------------------------------------------
\* The polling loop of one connection, fed from a queue of transfer outcomes:
\* pending holds how the coming reads of the input endpoint end, first to last

\* the longest queue of outcomes drawn from the small sets
MaxPending == 3

\* the reports r with one byte replaced by a value of vals
Vary(r, vals) == {[r EXCEPT ![i] = v] : i \in 1..Len(r), v \in vals}

\* the reports that are r cut short
Prefixes(r) == {SubSeq(r, 1, n) : n \in 0..Len(r)}

Delivered(reports) == {[io |-> "ok", data |-> d] : d \in reports}

TimedOut == [io |-> "timeout", data |-> <<>>]
Failed == [io |-> "error", data |-> <<>>]

\* the gamepads and the keyboard of test_data.py, one of each kind
Polled == {"Switch", "XInputUSB", "Snes", "Zero2", "Keyboard"}

\* reports of each kind that are met alone: each byte in turn takes each of
\* a few values, and each kind sends reports of any length
WideReports(n) ==
    IF n = "Switch"
    THEN Vary(<<\H30, 0, 0, 0, 0, 0, 0, 0>>, {1, 2, 4, 8, 64, \Hff})
         \cup Vary(<<\H21, 1, 2, 4, 8, 1, 2, 4>>, {0, \H30, \H81})
         \cup Prefixes(<<\H30, 0, 0, 1, 2, 4>>)
    ELSE IF n = "XInputUSB"
    THEN Vary(<<0, 20, 0, 0, 0, 0, 0, 0>>, {1, \H20, \Hff})
         \cup Prefixes(<<0, 20, 1, \H20, 0, 0>>)
    ELSE IF n = "Snes"
    THEN Vary(<<\H7f, \H7f, 0, 0, 0, \H0f, 0, 0>>, {0, \H10, \Hff})
         \cup Prefixes(<<\H7f, \H7f, 0, 0, 0, \H0f, 0>>)
    ELSE IF n = "Zero2"
    THEN Vary(<<0, 0, 15, \H80, \H80, \H80, \H80, 0>>, {1, 2, 4, 8})
         \cup Prefixes(<<0, 0, 15>>)
    ELSE Vary(<<0, 0, 0, 0, 0, 0, 0, 0>>, {2, 4})

\* reports of each kind that are met in a row
FewReports(n) ==
    IF n = "Switch"
    THEN {<<\H30, 0, 0, 0, 0, 0, 0, 0>>, <<\H30, 9, 0, 8, 0, 0, 0, 0>>,
          <<\H30, 7, 1, 8, 0, 0, 9, 9>>, <<\H21, 0, 0, 4, 0, 0, 0, 0>>,
          <<\H30, 0, 0, \H10, 0, 0, 0, 0>>}
    ELSE IF n = "XInputUSB"
    THEN {<<0, 20, 0, 0, 0, 0, 0, 0>>, <<0, 20, 0, \H20, 0, 0, 0, 0>>,
          <<1, 9, 0, \H20, 7, 7, 7, 7>>, <<0, 20, 0>>}
    ELSE IF n = "Snes"
    THEN {<<\H7f, \H7f, 0, 0, 0, \H0f, 0, 0>>, <<\H7f, \H7f, 0, 0, 0, \H2f, 0, 0>>,
          <<\H7f, \H7f, 0, 0, 0, \H2f, 0, 9>>, <<\H7f, \H7f>>,
          <<\H80, \H7f, 0, 0, 0, \H0f, 0, 0>>}
    ELSE IF n = "Zero2"
    THEN {<<0, 0, 15, \H80, \H80, \H80, \H80, 0>>, <<1, 0, 15, \H80, \H80, \H80, \H80, 0>>,
          <<1, 0, 15, \H80, \H80, \H80, \H80, 9>>, <<1, 0>>}
    ELSE {<<0, 0, 0, 0, 0, 0, 0, 0>>, <<0, 0, 4, 0, 0, 0, 0, 0>>}

\* the queues of outcomes a device of kind n is polled with
Queues(n) ==
    {<<o>> : o \in Delivered(WideReports(n))}
    \cup UNION {[1..k -> Delivered(FewReports(n)) \cup {TimedOut, Failed}] :
                  k \in 0..MaxPending}

\* the init record a kind's init leaves: all messages written and
\* acknowledged, or the LED set and the pipe drained, or nothing
Inited(self) ==
    IF self.dev_type = TYPE_SWITCH_PRO
    THEN [k |-> Len(messages), tries |-> 0, acked |-> TRUE, failed |-> "none",
          sent |-> [i \in 1..Len(messages) |->
                      <<self.int0_endpoint_out.bEndpointAddress, messages[i]>>]]
    ELSE IF self.dev_type = TYPE_XINPUT
    THEN [NoHandshake EXCEPT !.tries = DRAIN_READS,
                             !.sent = << <<XINPUT_LED_ENDPOINT, set_xinput_led(1).report>> >>]
    ELSE NoHandshake

\* main: `dev = InputDevice(scan_result)` has returned for the only device of
\* the bus, found by the first scan with no transfer failing
InitPoll ==
    \E n \in Polled :
    \E s \in {ProbeDevice(Catalog[n], {}, "ok", "ok", "ok")} :
    \E c \in {InputDevice([dev |-> 1, dev_type |-> s.result, interfaces |-> s.interfaces],
                          FALSE, "ok")} :
      /\ bus = <<n>>
      /\ pending \in Queues(n)
      /\ parse = NoParse
      /\ clock = NoClock
      /\ device_cache = s.cache
      /\ pc = "connected"
      /\ fi = 1
      /\ scan_result = [dev |-> 1, dev_type |-> s.result, interfaces |-> s.interfaces]
      /\ exc = "none"
      /\ usb = IF s.result \in {TYPE_SWITCH_PRO, TYPE_XINPUT}
               THEN << <<"read", c.self.int0_endpoint_in.bEndpointAddress>> >>
               ELSE c.ops
      /\ cache0 = {}
      /\ clean = TRUE
      /\ probe = [fp |-> s.fp, hit |-> FALSE, classified |-> TRUE, dev |-> 1]
      /\ dev = [c.self EXCEPT !.inited = TRUE]
      /\ hs = Inited(c.self)
      /\ poll = NoPoll
      /\ gui = NoGui
      /\ ev = NoEvent

\* an iteration of the for loop; a read, if one is made, ends as the queue
\* says
PollPending ==
    /\ pc = "poll"
    /\ pending # <<>>
    /\ \E delta \in Deltas, pressed \in BOOLEAN :
         /\ ForIteration(delta, pressed, Head(pending).io, Head(pending).data)
         /\ pending' = IF Throttled(delta) THEN pending ELSE Tail(pending)

NextPoll == StartPolling \/ PollPending

SpecPoll == InitPoll /\ [][NextPoll]_vars

---------------------------------------------------------------------------
\* The parsers of usb_descriptor.py and hid_report.py, each called once on
\* bytes a device may send

\* the longest byte stream given to split_desc
MaxStream == 5

\* the byte strings of n bytes or fewer over the bytes of alphabet
Strings(alphabet, n) == UNION {[1..k -> alphabet] : k \in 0..n}

\* the streams split: lengths that fit, lengths that do not, zeros
SplitArgs == {[data |-> d] : d \in Strings({0, 1, 2, 3, 9}, MaxStream)}

\* a call of parser fn with argument arg that has not been made yet
Call(fn, arg) == [fn |-> fn, arg |-> arg, done |-> FALSE]

Return(ret) == [fn |-> parse.fn, arg |-> parse.arg, done |-> TRUE, ret |-> ret]

\* split_desc(data): it has no raise statement
CallSplitDesc ==
    /\ pc = "parse"
    /\ parse.fn = "split_desc"
    /\ ~parse.done
    /\ parse' = Return([st |-> "ok", slices |-> split_desc(parse.arg.data)])
    /\ UNCHANGED <<bus, pending, clock, device_cache, pc, fi, scan_result, exc, usb,
                   cache0, clean, probe, conn>>

\* a device descriptor as a device sends it: class triple ff:47:d0, vendor
\* 045e, product 028e
DEVICE_DESC == <<18, 1, 0, 2, \Hff, \H47, \Hd0, 64, \H5e, \H04, \H8e, \H02, 0, 1, 1, 2, 0, 1>>

\* what devices answer to GET_DESCRIPTOR(device): a descriptor with any one
\* byte off, an answer cut short, no answer at all
DeviceArgs ==
    {[resp |-> r, io |-> io] :
       r \in Vary(DEVICE_DESC, {0, 9, 18, \Hff}) \cup Prefixes(DEVICE_DESC),
       io \in DescIO}

\* Descriptor(device)
CallDescriptor ==
    /\ pc = "parse"
    /\ parse.fn = "Descriptor"
    /\ ~parse.done
    /\ parse' = Return(Descriptor(parse.arg.resp, parse.arg.io))
    /\ UNCHANGED <<bus, pending, clock, device_cache, pc, fi, scan_result, exc, usb,
                   cache0, clean, probe, conn>>

\* the most sub-descriptors in a configuration stream
MaxParts == 4

\* sub-descriptors of a configuration stream: a configuration, interfaces 0
\* and 1, an input and an output endpoint, a HID descriptor with a report
\* descriptor of 18 bytes, an interface association (8 bytes, type 0b), an
\* audio endpoint (9 bytes, type 05)
PARTS ==
    { <<9, 2, 32, 0, 1, 1, 0, \H80, 50>>,
      <<9, 4, 0, 0, 2, 3, 0, 0, 0>>,
      <<9, 4, 1, 0, 1, 3, 1, 2, 0>>,
      <<7, 5, \H81, 3, 8, 0, 4>>,
      <<7, 5, \H02, 3, 8, 0, 10>>,
      <<9, \H21, \H11, 1, 0, 1, \H22, 18, 0>>,
      <<8, \H0b, 0, 2, 1, 1, 0, 0>>,
      <<9, 5, \H81, 1, 8, 0, 4, 0, 0>> }

\* the streams devices of class 00 and of class ef answer to
\* GET_DESCRIPTOR(configuration), in parts
ConfigArgs ==
    {[parts |-> p, bDeviceClass |-> c] :
       p \in UNION {[1..k -> PARTS] : k \in 0..MaxParts}, c \in {0, \Hef}}

\* desc.read_configuration(device) with no transfer failing; every interface
\* answers GET_DESCRIPTOR(report) with Usage Page (Generic Desktop), Usage
\* (Game Pad)
CallReadConfiguration ==
    /\ pc = "parse"
    /\ parse.fn = "read_configuration"
    /\ ~parse.done
    /\ parse' = Return(read_configuration([bDeviceClass |-> parse.arg.bDeviceClass],
                                          Flatten(parse.arg.parts),
                                          <<<<5, 1, 9, 5>>, <<5, 1, 9, 5>>>>, "ok", "ok"))
    /\ UNCHANGED <<bus, pending, clock, device_cache, pc, fi, scan_result, exc, usb,
                   cache0, clean, probe, conn>>

\* the most entries in the sub-descriptor list of a HID descriptor
MaxSubs == 2

\* the entries of a HID descriptor's list: a report (22) or a physical (23)
\* descriptor with a declared length of 0, 17, 18, 512 or 513
SUBS ==
    {<<t, n % 256, n \div 256>> : t \in {\H22, \H23}, n \in {0, 17, 18, 512, 513}}

\* HID descriptors with 1 to MaxSubs entries; the interface answers
\* GET_DESCRIPTOR(report) with resp, or the transfer fails
HidArgs ==
    {[d |-> <<6 + 3 * Len(e), \H21, \H11, 1, 0, Len(e)>> \o Flatten(e),
      resp |-> r, io |-> io] :
       e \in UNION {[1..k -> SUBS] : k \in 1..MaxSubs},
       r \in {<<5, 1, 9, 5>>, <<9, 5>>},
       io \in {"ok", "error"}}

\* HIDDesc(d, device, 0)
CallHIDDesc ==
    /\ pc = "parse"
    /\ parse.fn = "HIDDesc"
    /\ ~parse.done
    /\ parse' = Return(HIDDesc(parse.arg.d, <<parse.arg.resp>>, 0, parse.arg.io))
    /\ UNCHANGED <<bus, pending, clock, device_cache, pc, fi, scan_result, exc, usb,
                   cache0, clean, probe, conn>>

\* the longest report descriptor parsed on its own
MaxReport == 4

\* the bytes read as the payload of an item of size code c: none, data[cursor+1],
\* unpack_from '<H', unpack_from '<I'
Payload(c) == IF c = 3 THEN 4 ELSE c

\* report descriptors: NOP, Usage Page, Usage (sizes 0, 1 and 3), Report ID,
\* Collection, End Collection, the long item prefix, and their payloads; and
\* one Logical Minimum or Report Count item of each size with its payload
ReportArgs ==
    {[data |-> d] :
       d \in Strings({\H00, \H05, \H08, \H09, \H0b, \H85, \Ha1, \Hc0, \Hfe}, MaxReport)}
    \cup UNION {{[data |-> <<p>> \o w] : w \in [1..Payload(p % 4) -> {0, 5, \Hc0}]} :
                  p \in {\H14, \H15, \H16, \H17, \H94, \H95, \H96, \H97}}

\* HIDReportDesc(data)
CallHIDReportDesc ==
    /\ pc = "parse"
    /\ parse.fn = "HIDReportDesc"
    /\ ~parse.done
    /\ parse' = Return(HIDReportDesc(parse.arg.data))
    /\ UNCHANGED <<bus, pending, clock, device_cache, pc, fi, scan_result, exc, usb,
                   cache0, clean, probe, conn>>

\* the filtered reports the normalizers are given: for each kind, every
\* value of the byte that selects the face buttons or the directions, the
\* other bytes all clear or all set
NormArgs ==
    {[dev_type |-> TYPE_SWITCH_PRO, d |-> <<b, c, e>>] :
       b \in 0..255, c \in {0, \Hff}, e \in {0, \Hff}}
    \cup {[dev_type |-> TYPE_ADAFRUIT_SNES, d |-> <<b, c, 0, \H80, \H80, e, e>>] :
            b \in 0..255, c \in {0, \H7f, \Hff}, e \in {0, \Hff}}
    \cup {[dev_type |-> TYPE_ADAFRUIT_SNES, d |-> <<c, b, 0, \H80, \H80, e, e>>] :
            b \in 0..255, c \in {0, \H7f, \Hff}, e \in {0, \Hff}}
    \cup {[dev_type |-> TYPE_8BITDO_ZERO2, d |-> <<c, e, b>>] :
            b \in 0..255, c \in {0, \Hff}, e \in {0, \Hff}}

\* the normalizer of input_event_generator for the kind, on one report
CallNormalize ==
    /\ pc = "parse"
    /\ parse.fn = "normalize"
    /\ ~parse.done
    /\ parse' = Return(normalize(parse.arg.dev_type, parse.arg.d))
    /\ UNCHANGED <<bus, pending, clock, device_cache, pc, fi, scan_result, exc, usb,
                   cache0, clean, probe, conn>>

\* the speeds a device negotiates and the bInterval its input endpoint may
\* declare: 1 to 16 at high speed, 1 to 255 at low and full speed
IntervalArgs ==
    {[speed |-> "high", bInterval |-> b] : b \in 1..16}
    \cup {[speed |-> v, bInterval |-> b] : v \in {"low", "full"}, b \in 1..255}

\* int0_read_generator: the statements that set interval
CallPollInterval ==
    /\ pc = "parse"
    /\ parse.fn = "poll_interval"
    /\ ~parse.done
    /\ parse' = Return([st |-> "ok",
                        interval |-> poll_interval(parse.arg.speed, parse.arg.bInterval)])
    /\ UNCHANGED <<bus, pending, clock, device_cache, pc, fi, scan_result, exc, usb,
                   cache0, clean, probe, conn>>

ParseArgs ==
    {Call("split_desc", a) : a \in SplitArgs}
    \cup {Call("read_configuration", a) : a \in ConfigArgs}
    \cup {Call("Descriptor", a) : a \in DeviceArgs}
    \cup {Call("HIDDesc", a) : a \in HidArgs}
    \cup {Call("HIDReportDesc", a) : a \in ReportArgs}
    \cup {Call("normalize", a) : a \in NormArgs}
    \cup {Call("poll_interval", a) : a \in IntervalArgs}

InitParse ==
    /\ parse \in ParseArgs
    /\ pc = "parse"
    /\ bus = <<>>
    /\ pending = <<>>
    /\ clock = NoClock
    /\ device_cache = {}
    /\ fi = 1
    /\ scan_result = NoResult
    /\ exc = "none"
    /\ usb = <<>>
    /\ cache0 = {}
    /\ clean = TRUE
    /\ probe = NoProbe
    /\ dev = NoDevice
    /\ hs = NoHandshake
    /\ poll = NoPoll
    /\ gui = NoGui
    /\ ev = NoEvent

NextParse ==
    \/ CallSplitDesc
    \/ CallDescriptor
    \/ CallReadConfiguration
    \/ CallHIDDesc
    \/ CallHIDReportDesc
    \/ CallNormalize
    \/ CallPollInterval

SpecParse == InitParse /\ [][NextParse]_vars

---------------------------------------------------------------------------
\* Properties of the bus scan (SpecScan)

\* the fingerprint of the device named n, and the kind find_usb_device gives
\* it when it is the only device, uncached, and every transfer succeeds
Fingerprint(n) == Pad(Catalog[n].dd, 18)
KindAlone(n) == ProbeDevice(Catalog[n], {}, "ok", "ok", "ok").result

\* the device the last step examined, and the tag of what was returned
Examined == Catalog[bus[probe.dev]]
Returned == Tag(scan_result.dev_type)
Int0 == int0_class_subclass_protocol(
            read_configuration(Descriptor(Examined.dd, "ok"), Examined.cfg,
                               Examined.reports, "ok", "ok").interfaces)
DevTriple == <<Examined.dd[5], Examined.dd[6], Examined.dd[7]>>
VidPid == <<Examined.dd[10] * 256 + Examined.dd[9], Examined.dd[12] * 256 + Examined.dd[11]>>

\* the last step classified an uncached device and the invocation ended
Classified == pc = "returned" /\ probe.dev # 0 /\ probe.classified

\* C1: when an invocation of find_usb_device ends, no transfer of it having
\* failed, and the bus holds a device that was not cached when it began and
\* that classifies to a kind, the invocation has returned a ScanResult for a
\* device that was not cached when it began.
C1_ScanPassesSkipped ==
    (/\ pc = "returned"
     /\ clean
     /\ \E i \in 1..Len(bus) : Fingerprint(bus[i]) \notin cache0 /\ KindAlone(bus[i]) # 0)
    => /\ scan_result.dev # 0
       /\ Fingerprint(bus[scan_result.dev]) \notin cache0

\* C2: a step of the scan that reads a device descriptor successfully leaves
\* its 18 bytes in the cache, the cache never loses an entry while it is not
\* reset, and a step that meets a fingerprint already in the cache neither
\* classifies the device, nor reads its configuration descriptor, nor returns
\* a ScanResult.
C2_FingerprintCached ==
    [][/\ device_cache \subseteq device_cache'
       /\ (pc = "find" /\ fi <= Len(bus) /\ probe'.fp # <<>>)
          => /\ probe'.fp = Fingerprint(bus[fi])
             /\ probe'.fp \in device_cache'
             /\ probe'.fp \in device_cache
                => /\ ~probe'.classified
                   /\ \A n \in 1..Len(usb') : usb'[n][1] = "get_device_desc"
                   /\ scan_result' = NoResult]_vars

C2_CachedDeviceMet == pc = "returned" /\ probe.hit /\ probe.fp \in cache0

\* the kinds of the rules of C3 in their order, for the device examined
FirstMatch ==
    IF VidPid = <<\H057e, \H2009>> THEN "SwitchPro"
    ELSE IF VidPid = <<\H081f, \He401>> THEN "AdafruitSNES"
    ELSE IF VidPid = <<\H2dc8, \H9018>> THEN "8BitDoZero2"
    ELSE IF DevTriple = <<\Hff, \Hff, \Hff>> /\ Int0 = <<\Hff, \H5d, 1>> THEN "XInput"
    ELSE IF DevTriple = <<0, 0, 0>> /\ Int0 = <<3, 0, 0>> THEN "HIDComposite"
    ELSE IF Int0 = <<3, 1, 1>> THEN "BootKeyboard"
    ELSE IF Int0 = <<3, 1, 2>> THEN "BootMouse"
    ELSE "other"

ExpectedKind ==
    [Keyboard |-> "BootKeyboard", Mouse |-> "BootMouse", PowerA |-> "HIDComposite",
     UltimateBT |-> "SwitchPro", Zero2 |-> "8BitDoZero2", DInput |-> "HIDComposite",
     Switch |-> "SwitchPro", XInputBT |-> "XInput", XInputUSB |-> "XInput"]

\* C3: an uncached device gets the kind of the first rule it matches, in the
\* order vendor:product table, XInput, HID composite, boot keyboard, boot
\* mouse; a vendor:product match wins over the class triples; every entry of
\* TEST_DATA gets its expected kind.
C3_FirstMatchWins ==
    Classified
    => /\ FirstMatch # "other" => Returned = FirstMatch
       /\ bus[probe.dev] \in DOMAIN TEST_DATA => Returned = ExpectedKind[bus[probe.dev]]
       /\ VidPid = <<\H057e, \H2009>> => Returned = "SwitchPro"

C3_VendorProductWins ==
    Classified /\ bus[probe.dev] = "SwitchVendor" /\ Returned = "SwitchPro"

\* C4: a device returned as XInput has a configuration that declares exactly
\* 4 interfaces.
C4_XInputHasFourInterfaces ==
    (Classified /\ Returned = "XInput") => Examined.cfg[5] = 4

\* none of the vendor:product, XInput, boot keyboard and boot mouse rules
\* matches the device examined
NoOtherRule ==
    /\ VidPid \notin {<<\H057e, \H2009>>, <<\H081f, \He401>>, <<\H2dc8, \H9018>>}
    /\ ~(DevTriple = <<\Hff, \Hff, \Hff>> /\ Int0 = <<\Hff, \H5d, 1>>)
    /\ Int0 \notin {<<3, 1, 1>>, <<3, 1, 2>>}

\* C5 as stated: a device is returned as HID composite exactly when its device
\* class is 0, interface 0 is 03:00:00 and no earlier rule matched; a device
\* that matches no rule gets no ScanResult.
C5_CompositeByClassByte ==
    Classified
    => /\ Returned = "HIDComposite"
          <=> (NoOtherRule /\ DevTriple[1] = 0 /\ Int0 = <<3, 0, 0>>)
       /\ (NoOtherRule /\ ~(DevTriple[1] = 0 /\ Int0 = <<3, 0, 0>>))
          => scan_result = NoResult

\* C5: a device is returned as HID composite exactly when its device class
\* triple is 00:00:00, interface 0 is 03:00:00 and no earlier rule matched; a
\* device that matches no rule and whose interface 0 is 03:00:00 is returned
\* with the kind HID; a device that matches no rule and whose interface 0 is
\* not 03:00:00 gets no ScanResult.
C5_CompositeByTriple ==
    Classified
    => /\ Returned = "HIDComposite"
          <=> (NoOtherRule /\ DevTriple = <<0, 0, 0>> /\ Int0 = <<3, 0, 0>>)
       /\ (NoOtherRule /\ DevTriple # <<0, 0, 0>> /\ Int0 = <<3, 0, 0>>)
          => Returned = "HID"
       /\ (NoOtherRule /\ Int0 # <<3, 0, 0>>) => scan_result = NoResult

C5_PlainHIDReturned ==
    Classified /\ bus[probe.dev] = "SubclassHID" /\ Returned = "HID"

\* C6: no exception leaves find_usb_device.
C6_NothingLeavesTheScan == ~(pc = "stopped" /\ exc # "none")

---------------------------------------------------------------------------
\* Properties of the main loop (Spec)

\* a step taken inside a connection: from the ScanResult to the polling loop
InConnection ==
    \/ pc \in {"hs_write", "hs_read", "xi_led", "xi_drain", "connected", "poll"}
    \/ pc = "returned" /\ scan_result # NoResult

\* C7: a failed SwitchPro handshake does not stop the main loop.
C7_HandshakeFailureRecoverable == hs.failed # "none" => pc # "stopped"

\* C8: a step that ends a connection, by Button 1 or by a USB error that is
\* no timeout, updates no display, empties the cache, drops the InputDevice
\* and goes to the top of the main loop, whose next USB action is the bus
\* scan; a scan that returns None leaves the cache as it is.
C8_ConnectionEnd ==
    [][/\ (/\ InConnection
           /\ \/ ev'.what = "break"
              \/ ev'.what = "except" /\ ev'.data = "USBError")
          => /\ ~ev'.shown
             /\ device_cache' = {}
             /\ dev' = NoDevice
             /\ pc' = "call"
       /\ pc = "call" => usb' = << <<"find">> >>
       /\ (pc = "returned" /\ scan_result = NoResult)
          => device_cache' = device_cache]_vars

C8_EndedByButton == pc = "call" /\ ev.what = "break" /\ cache0 # {}

\* C9: the handshake runs for SwitchPro only; a read of the polling loop is
\* issued only on a device whose set_configuration and kind-specific
\* initialisation have completed (all 8 handshake messages acknowledged for
\* SwitchPro, the LED written and the 8 draining reads done for XInput); an
\* exception in a connection leaves no InputDevice and no polling.
C9_PhaseOrder ==
    [][/\ pc' \in {"hs_write", "hs_read"} => scan_result'.dev_type = TYPE_SWITCH_PRO
       /\ pc' \in {"hs_write", "hs_read", "xi_led", "xi_drain"}
          => dev'.configured /\ ~dev'.inited
       /\ (pc = "poll" /\ usb' # <<>>)
          => /\ usb'[1][1] = "read"
             /\ dev.configured /\ dev.inited
             /\ dev.dev_type = TYPE_SWITCH_PRO
                => Len(hs.sent) = 8 /\ hs.acked
             /\ dev.dev_type = TYPE_XINPUT
                => Len(hs.sent) = 1 /\ hs.tries = 8
       /\ (InConnection /\ ev'.what = "except")
          => dev' = NoDevice /\ pc' \in {"call", "stopped"}]_vars

C9_SwitchProPolled ==
    pc = "poll" /\ dev.dev_type = TYPE_SWITCH_PRO /\ poll.started /\ usb # <<>>

\* the handshake of C10
HandshakeMessages ==
    << <<\H80, 1>>, <<\H80, 2>>, <<\H80, 3>>, <<\H80, 2>>, <<\H80, 4>>,
       <<1, 6, 0, 0, 0, 0, 0, 0, 0, 0, 3, \H30>>,
       <<1, 10, 0, 0, 0, 0, 0, 0, 0, 0, \H30, 1>>,
       <<1, 11, 0, 0, 0, 0, 0, 0, 0, 0, \H38, 1, 0, 0, \H11, \H11>> >>

\* C10: the messages written during a SwitchPro handshake are, in order, the
\* first of the 8 messages, each on the first output endpoint of interface 0;
\* a handshake that completes has written all 8; and a message after the first
\* is written only when a read has returned since the one before it.
C10_HandshakeMessages ==
    /\ [](dev.dev_type = TYPE_SWITCH_PRO
          => /\ Len(hs.sent) <= 8
             /\ \A n \in 1..Len(hs.sent) :
                   /\ hs.sent[n][2] = HandshakeMessages[n]
                   /\ hs.sent[n][1] =
                        int0_output_endpoints(scan_result.interfaces)[1].bEndpointAddress
                   /\ ~BitSet(hs.sent[n][1], 128)
             /\ dev.inited => Len(hs.sent) = 8)
    /\ [][(dev.dev_type = TYPE_SWITCH_PRO /\ Len(hs'.sent) = Len(hs.sent) + 1
             /\ Len(hs.sent) >= 1)
          => hs.acked /\ hs.tries >= 1]_vars

C10_HandshakeDone ==
    pc = "connected" /\ dev.dev_type = TYPE_SWITCH_PRO /\ Len(hs.sent) = 8

\* C11: in the SwitchPro handshake a write that times out, or 8 reads in a
\* row that time out after a message, end the handshake with the handshake
\* error (ValueError) and nothing more is written; a message is read for at
\* most 8 times and at most 8 messages are written, hence at most 64 reads.
C11_HandshakeBounded ==
    /\ [](/\ hs.tries <= 8
          /\ Len(hs.sent) <= 8
          /\ hs.failed # "none"
             => /\ pc = "stopped" /\ exc = "ValueError"
                /\ dev = NoDevice
                /\ hs.failed = "wr" => hs.tries = 0
                /\ hs.failed = "rd" => hs.tries = 8)
    /\ [][/\ (pc = "hs_read" /\ hs.tries = 7 /\ pc' = "hs_read") => FALSE
          /\ (pc = "hs_write" /\ pc' = "stopped") => hs'.failed = "wr"
          /\ (pc = "hs_read" /\ pc' = "stopped") => hs'.failed = "rd"
          /\ (pc = "hs_read" /\ pc' = "hs_read")
             => hs'.tries = hs.tries + 1 /\ hs'.sent = hs.sent
          /\ hs.failed # "none" => hs'.sent = hs.sent]_vars

C11_EightTimeouts ==
    pc = "stopped" /\ hs.failed = "rd" /\ hs.tries = 8 /\ Len(hs.sent) = 3

---------------------------------------------------------------------------
\* Properties of the initialisation of a connection (SpecConn)

\* C12: XInput initialisation writes the player-LED command 01 03 02 (player
\* 1) to the output endpoint chosen for the connection, the first OUT endpoint
\* of interface 0, whatever its address is.
C12_LedOnOutputEndpoint ==
    [][pc = "xi_led"
       => usb' = << <<"write", dev.int0_endpoint_out.bEndpointAddress, <<1, 3, 2>>>> >>]_vars

\* C13: XInput initialisation asks whether the kernel driver is active on
\* interface 0 and detaches it only then, sets the configuration, writes the
\* LED command, then reads the input endpoint at most 8 times; a draining
\* read never ends the initialisation with a timeout, a USB error in any
\* step ends it.
C13_XInputInitOrder ==
    /\ [](pc = "xi_drain" => hs.tries < 8 /\ Len(hs.sent) = 1)
    /\ [][/\ pc' = "xi_led"
             => /\ pc = "returned"
                /\ \/ usb' = << <<"is_kernel_driver_active", FALSE>>,
                                <<"set_configuration">> >>
                   \/ usb' = << <<"is_kernel_driver_active", TRUE>>,
                                <<"detach_kernel_driver">>, <<"set_configuration">> >>
          /\ pc = "xi_led"
             => /\ Len(usb') = 1 /\ usb'[1][1] = "write"
                /\ \/ pc' = "xi_drain" /\ hs'.tries = 0
                   \/ pc' = "call" /\ ev'.what = "except"
                      /\ ev'.data \in {"USBError", "USBTimeoutError"}
          /\ pc = "xi_drain"
             => /\ usb' = << <<"read", dev.int0_endpoint_in.bEndpointAddress>> >>
                /\ \/ pc' = "xi_drain" /\ hs'.tries = hs.tries + 1
                   \/ pc' = "connected" /\ hs'.tries = 8 /\ dev'.inited
                   \/ pc' = "call" /\ ev'.what = "except" /\ ev'.data = "USBError"
          /\ (pc' = "connected" /\ dev'.dev_type = TYPE_XINPUT) => pc = "xi_drain"]_vars

C13_XInputDrained ==
    pc = "connected" /\ dev.dev_type = TYPE_XINPUT /\ hs.tries = 8 /\ Len(hs.sent) = 1

\* C17: the polling period is bInterval ms at low and full speed and
\* 2^(bInterval-1)/8 ms at high speed (bInterval 4: 1 ms).
C17_EffectiveInterval ==
    poll.started
    => LET speed == Catalog[bus[scan_result.dev]].speed
           bInterval == dev.int0_endpoint_in.bInterval
       IN  poll.interval = IF speed = "high" THEN (2 ^ (bInterval - 1)) \div 8
                           ELSE bInterval

---------------------------------------------------------------------------
\* Properties of elapsed_ms_generator (SpecTime)

\* C18: with a clock that wraps at 2^29 and samples less than 2^29 ms apart,
\* every delta the generator yields is the time that really passed between
\* the two samples, also across the wrap, and never 2^29 ms or more.
C18_DeltaIsElapsed ==
    clock.started => clock.delta = clock.real /\ clock.delta < TICKS_PERIOD

---------------------------------------------------------------------------
\* Properties of the polling loop (SpecPoll)

\* this step has read the report Arrived from the input endpoint
ReadsReport ==
    /\ pc = "poll"
    /\ pending # <<>>
    /\ Head(pending).io = "ok"
    /\ pending' = Tail(pending)

Arrived == Head(pending).data

\* the bytes of the stored previous report, before and after a step
Stored == Bytes(PollState.prev_report, PollState)
StoredNext == Bytes(poll'.prev_report, poll')

\* C14: of an XInput report of 4 bytes or more the value is byte 2 +
\* 256 * byte 3; the other bytes change neither the value nor the change
\* detection: the report is yielded exactly when its bytes 2-3 differ from
\* the stored report, the stored report is then bytes 2-3 of the last report
\* read, and no step without a report changes it, so that a report with the
\* bytes 2-3 of the one before it is "no new data".
C14_XInputBytes2And3 ==
    [][(pc = "poll" /\ dev.dev_type = TYPE_XINPUT)
       => /\ (ReadsReport /\ Len(Arrived) >= 4)
             => /\ ev'.what \in {"skip", "bits", "break"}
                /\ ev'.what = "bits" => gui'.prev = Arrived[3] + 256 * Arrived[4]
                /\ ev'.what = "skip" => Stored = <<Arrived[3], Arrived[4]>>
                /\ ev'.what = "bits" => Stored # <<Arrived[3], Arrived[4]>>
                /\ pc' = "poll" => StoredNext = <<Arrived[3], Arrived[4]>>
          /\ (~ReadsReport /\ pc' = "poll") => StoredNext = Stored]_vars

\* a second report 0x2000 that differs in its other bytes was not yielded
C14_SameButtonsOtherBytes ==
    /\ pc = "poll" /\ dev.dev_type = TYPE_XINPUT /\ ev.what = "skip"
    /\ poll.started /\ poll.data_odd # poll.data_even
    /\ SubSeq(poll.data_odd, 3, 4) = <<0, 32>>
    /\ SubSeq(poll.data_even, 3, 4) = <<0, 32>>

\* C15: a SwitchPro report whose first byte is not 0x30 is "no new data"
\* whatever its other bytes are, and leaves the stored previous report, the
\* view and its bytes, and the buffer in turn as they were.
C15_OtherReportIdDropped ==
    [][(/\ pc = "poll" /\ dev.dev_type = TYPE_SWITCH_PRO
        /\ ReadsReport /\ Len(Arrived) >= 1 /\ Arrived[1] # \H30)
       => /\ ev'.what \in {"skip", "break"}
          /\ pc' = "poll"
             => /\ StoredNext = Stored
                /\ poll'.prev_report = PollState.prev_report
                /\ poll'.odd = PollState.odd]_vars

\* a report 0x21 or 0x81 was read after a report 0x30 had been stored
C15_SubcommandReplyMet ==
    /\ pc = "poll" /\ dev.dev_type = TYPE_SWITCH_PRO /\ ev.what = "skip"
    /\ poll.started /\ poll.prev_report.hi - poll.prev_report.lo = 3
    /\ (IF poll.odd THEN poll.data_odd ELSE poll.data_even)[1] \in {\H21, \H81}
    /\ (IF poll.odd THEN poll.data_even ELSE poll.data_odd)[1] = \H30

\* C16: the value yielded for a SwitchPro report 0x30 is decoded from the raw
\* bytes 2, 3 and 4 of the report (byte 0 is the report ID): byte 2 = 1, 2,
\* 4, 8 is Y, X, B, A; byte 3 bit 1 is Select and bit 2 Start; byte 4 bits 1,
\* 2, 4, 8 are Down, Up, Right, Left and bit 0x40 is L; no other byte of the
\* report changes the value (R is left aside).
C16_SwitchProBytes234 ==
    [][(/\ pc = "poll" /\ dev.dev_type = TYPE_SWITCH_PRO
        /\ ReadsReport /\ Len(Arrived) >= 5 /\ Arrived[1] = \H30
        /\ ev'.what = "bits")
       => LET b2 == Arrived[3]
              b3 == Arrived[4]
              b4 == Arrived[5]
          IN  gui'.prev - Or(BitSet(gui'.prev \div R, 1), R)
              = Or(b2 = 1, Y) + Or(b2 = 2, X) + Or(b2 = 4, B) + Or(b2 = 8, A)
                + Or(BitSet(b3, 1), SELECT) + Or(BitSet(b3, 2), START)
                + Or(BitSet(b4, 1), DOWN) + Or(BitSet(b4, 2), UP)
                + Or(BitSet(b4, 4), RIGHT) + Or(BitSet(b4, 8), LEFT)
                + Or(BitSet(b4, 64), L)]_vars

\* the bytes lo+1 .. hi of the report d, as far as it has them
Cut(d, lo, hi) == SubSeq(d, lo + 1, IF hi < Len(d) THEN hi ELSE Len(d))

\* the filtered report of each kind: the bytes of the report that are kept
Kept(d) ==
    IF dev.dev_type = TYPE_SWITCH_PRO THEN Cut(d, 3, 6)
    ELSE IF dev.dev_type = TYPE_ADAFRUIT_SNES THEN Cut(d, 0, 7)
    ELSE IF dev.dev_type = TYPE_8BITDO_ZERO2 THEN Cut(d, 0, 3)
    ELSE IF dev.dev_type = TYPE_XINPUT THEN Cut(d, 2, 4)
    ELSE d

\* the filter rejects the report d: a SwitchPro report of another ID
Rejected(d) == dev.dev_type = TYPE_SWITCH_PRO /\ Len(d) >= 1 /\ d[1] # \H30

\* C19: every step of the polling loop that reads a report compares the
\* filtered report with the stored previous report: if they are equal or the
\* filter rejected the report, the step yields "no new data" and the stored
\* report stays; otherwise the stored report becomes the filtered report and
\* the step yields its value; there is no third outcome.  For XInput, a
\* report 0x2000 is yielded as 0x2000 unless 0x2000 is stored, and the first
\* report 0x0000 is yielded as 0 or is "no new data".
C19_ChangeDetection ==
    [][(pc = "poll" /\ ReadsReport /\ ev'.what # "break")
       => /\ (Rejected(Arrived) \/ Kept(Arrived) = Stored)
             => /\ ev'.what = "skip"
                /\ StoredNext = Stored
                /\ poll'.prev_report = PollState.prev_report
          /\ ~(Rejected(Arrived) \/ Kept(Arrived) = Stored)
             => /\ ev'.what \in {"bits", "bytes"}
                /\ StoredNext = Kept(Arrived)
                /\ ev'.what = "bits" /\ dev.dev_type = TYPE_XINPUT
                   => gui'.prev = Kept(Arrived)[1] + 256 * Kept(Arrived)[2]
          /\ (dev.dev_type = TYPE_XINPUT /\ Kept(Arrived) = <<0, \H20>>)
             => IF Stored = <<0, \H20>> THEN ev'.what = "skip"
                ELSE ev'.what = "bits" /\ gui'.prev = \H2000
          /\ (dev.dev_type = TYPE_XINPUT /\ Kept(Arrived) = <<0, 0>> /\ ~poll.started)
             => ev'.what = "skip" \/ (ev'.what = "bits" /\ gui'.prev = 0)]_vars

\* this step has made a read that ended as io
ReadEnds(io) ==
    /\ pc = "poll"
    /\ pending # <<>>
    /\ Head(pending).io = io
    /\ pending' = Tail(pending)

\* C20: a read of the polling loop that times out is no error: the step
\* yields "no new data", the loop goes on, the stored previous report and the
\* buffer in turn stay as they were, and the time to the next read starts
\* again; a read that fails with another USB error ends the stream with that
\* error, and nothing else ends the stream.
C20_TimeoutIsNoError ==
    [][pc = "poll"
       => /\ ReadEnds("timeout")
             => /\ ev'.what \in {"skip", "break"}
                /\ ev'.what = "skip"
                   => /\ pc' = "poll"
                      /\ poll'.prev_report = PollState.prev_report
                      /\ StoredNext = Stored
                      /\ poll'.odd = PollState.odd
                      /\ poll'.poll_ms = 0
          /\ ReadEnds("error")
             => pc' = "call" /\ ev'.what = "except" /\ ev'.data = "USBError"
          /\ ev'.what = "except" => ReadEnds("error")]_vars

---------------------------------------------------------------------------
\* Properties of the descriptor parsers (SpecParse)

Called(fn) == parse.fn = fn /\ parse.done

\* from byte k on, the stream is sub-descriptors that begin with their own
\* non-zero length and end with the stream, or at a zero length byte
RECURSIVE Tiles(_, _)
Tiles(data, k) ==
    \/ k = Len(data)
    \/ k < Len(data) /\ data[k + 1] = 0
    \/ k < Len(data) /\ data[k + 1] # 0 /\ k + data[k + 1] <= Len(data)
       /\ Tiles(data, k + data[k + 1])

\* C21: of a well-formed stream split_desc returns, without an error, slices
\* that each begin with their own length and that put together are the
\* stream up to its end or up to the first zero length byte.
C21_SplitRoundTrip ==
    (Called("split_desc") /\ Tiles(parse.arg.data, 0))
    => LET slices == parse.ret.slices
           joined == Flatten(slices)
       IN  /\ parse.ret.st = "ok"
           /\ \A i \in 1..Len(slices) : Len(slices[i]) = slices[i][1] /\ slices[i][1] # 0
           /\ joined = SubSeq(parse.arg.data, 1, Len(joined))
           /\ Len(joined) = Len(parse.arg.data) \/ parse.arg.data[Len(joined) + 1] = 0

\* two sub-descriptors, a terminator and padding that is not zero were split
C21_SplitBeforeTerminator ==
    /\ Called("split_desc") /\ Tiles(parse.arg.data, 0)
    /\ Len(parse.ret.slices) = 2
    /\ parse.arg.data[Len(parse.arg.data)] # 0
    /\ Len(Flatten(parse.ret.slices)) < Len(parse.arg.data) - 1

\* C22: when a declared length reaches past the end of the buffer
\* split_desc fails with the malformed-descriptor error (ValueError) and
\* returns no slices.
C22_OverrunFails ==
    (Called("split_desc") /\ ~Tiles(parse.arg.data, 0))
    => parse.ret.st = "ValueError"

\* the 18 bytes get_desc returns to Descriptor.__init__
DeviceBuffer ==
    IF parse.arg.io = "zero" THEN [i \in 1..18 |-> 0]
    ELSE [i \in 1..18 |-> IF i <= Len(parse.arg.resp) THEN parse.arg.resp[i] ELSE 0]

\* C23: parsing the device descriptor fails with ValueError whenever byte 0
\* of the 18-byte buffer is not 18, the all-zero buffer included; when it is
\* 18 the vendor and product IDs are the little-endian words at bytes 8-9
\* and 10-11 and the class triple is bytes 4, 5, 6.
C23_DeviceDescriptor ==
    (Called("Descriptor") /\ parse.arg.io # "error")
    => LET d == DeviceBuffer IN
       IF d[1] # 18 THEN parse.ret.st = "ValueError"
       ELSE /\ parse.ret.st = "ok"
            /\ vid_pid(parse.ret) = <<d[9] + 256 * d[10], d[11] + 256 * d[12]>>
            /\ dev_class_subclass_protocol(parse.ret) = <<d[5], d[6], d[7]>>

\* a descriptor of vendor 045e, product 028e and class ff:47:d0 was parsed
C23_VendorParsed ==
    /\ Called("Descriptor") /\ parse.ret.st = "ok"
    /\ vid_pid(parse.ret) = <<\H045e, \H028e>>
    /\ dev_class_subclass_protocol(parse.ret) = <<\Hff, \H47, \Hd0>>

\* sub-descriptor n of the stream parsed is an interface, an endpoint, a HID
\* descriptor
IsInterface(n) == parse.arg.parts[n][2] = 4
IsEndpoint(n) == parse.arg.parts[n][1] = 7 /\ parse.arg.parts[n][2] = 5
IsHid(n) == parse.arg.parts[n][2] = \H21

\* the place in the stream of the last interface descriptor before place n, 0
\* if there is none
Owner(n) ==
    LET before == {m \in 1..(n - 1) : IsInterface(m)} IN
    IF before = {} THEN 0 ELSE CHOOSE m \in before : \A k \in before : k <= m

\* the places of the stream that hold an interface descriptor, in order
InterfacePlaces ==
    SelectSeq([n \in 1..Len(parse.arg.parts) |-> n], IsInterface)

\* the endpoints, and the number of HID descriptors, that follow the
\* interface descriptor at place m before the next interface descriptor
EndpointsOf(m) ==
    LET IsMine(n) == IsEndpoint(n) /\ Owner(n) = m
        mine == SelectSeq([n \in 1..Len(parse.arg.parts) |-> n], IsMine)
    IN  [k \in 1..Len(mine) |-> EndpointDesc(parse.arg.parts[mine[k]])]

HidsOf(m) ==
    Cardinality({n \in 1..Len(parse.arg.parts) : IsHid(n) /\ Owner(n) = m})

\* C24: read_configuration attaches every endpoint and every HID descriptor
\* to the interface descriptor last seen before it, and fails with the
\* malformed-descriptor error (ValueError) when an endpoint or a HID
\* descriptor comes before any interface descriptor, whatever the device
\* class is.
C24_AttachedToLastInterface ==
    (Called("read_configuration") /\ parse.arg.parts # <<>>)
    => IF \E n \in 1..Len(parse.arg.parts) : (IsEndpoint(n) \/ IsHid(n)) /\ Owner(n) = 0
       THEN parse.ret.st = "ValueError"
       ELSE /\ parse.ret.st = "ok"
            /\ Len(parse.ret.interfaces) = Len(InterfacePlaces)
            /\ \A k \in 1..Len(InterfacePlaces) :
                 /\ parse.ret.interfaces[k].endpoint = EndpointsOf(InterfacePlaces[k])
                 /\ Len(parse.ret.interfaces[k].hid) = HidsOf(InterfacePlaces[k])

\* entry i (from 1) of the sub-descriptor list of the HID descriptor parsed:
\* its type and its declared length
SubType(i) == parse.arg.d[4 + 3 * i]
SubLength(i) == parse.arg.d[5 + 3 * i] + 256 * parse.arg.d[6 + 3 * i]

\* the entries whose report descriptor is to be fetched
ToFetch == {i \in 1..parse.arg.d[6] : SubType(i) = \H22 /\ SubLength(i) <= 512}

\* C25: for every entry of type 0x22 with a declared length of 0 to 512 the
\* report descriptor is fetched with a read of exactly that length and
\* parsing goes on; for a declared length above 512 nothing is fetched and
\* the entry is recorded with its type, its length and an empty payload.
C25_ReportFetch ==
    (Called("HIDDesc") /\ parse.arg.io = "ok")
    => /\ parse.ret.st = "ok"
       /\ parse.ret.fetched = Cardinality(ToFetch)
       /\ Len(parse.ret.subs) = parse.arg.d[6]
       /\ \A i \in 1..parse.arg.d[6] :
            /\ parse.ret.subs[i].bDescriptorType = SubType(i)
            /\ parse.ret.subs[i].wDescriptorLength = SubLength(i)
            /\ i \in ToFetch => Len(parse.ret.subs[i].data) = SubLength(i)
            /\ SubLength(i) > 512 => parse.ret.subs[i].data = <<>>

\* C26: a report descriptor whose first item that is not a NOP has the
\* prefix byte 0xFE fails with ValueError, and no item is recorded for it.
C26_LongItemFails ==
    Called("HIDReportDesc")
    => \A k \in 1..Len(parse.arg.data) :
         (parse.arg.data[k] = HID_LONG_ITEM_PREFIX
            /\ \A n \in 1..(k - 1) : parse.arg.data[n] = 0)
         => parse.ret.st = "ValueError" /\ parse.ret.items = 0

\* C27: on every byte sequence the report-descriptor parser returns or
\* raises ValueError, nothing else.
C27_OnlyValueError ==
    Called("HIDReportDesc") => parse.ret.st \in {"ok", "ValueError"}

---------------------------------------------------------------------------
\* Properties of the polling loop's throttle and buffers (SpecPoll)

\* C28: a step of the polling loop makes at most one read of the endpoint,
\* with the polling period as its timeout; while the time accumulated since
\* the last read attempt is below the period it makes no read, keeps the sum
\* and yields None; a step that reads leaves the accumulator at 0, whether the
\* read delivers a new report, an unchanged one, or times out.
C28_Throttle ==
    [][\A delta \in Deltas, pressed \in BOOLEAN :
         (/\ pc = "poll" /\ pending # <<>> /\ dev.int0_endpoint_in.ok
          /\ ForIteration(delta, pressed, Head(pending).io, Head(pending).data))
         => LET p == PollState IN
            /\ Len(usb') <= 1
            /\ \A i \in DOMAIN usb' : usb'[i] = <<"read", p.in_addr, p.interval>>
            /\ p.poll_ms + delta < p.interval
               => /\ usb' = <<>>
                  /\ ev'.what \in {"skip", "break"}
                  /\ poll'.started => poll'.poll_ms = p.poll_ms + delta
            /\ (usb' # <<>> /\ poll'.started) => poll'.poll_ms = 0]_vars

\* the period is longer than any one step, so reads were put off; then a read
\* was made that yielded None, and the accumulator is 0 again
C28_WaitedThenRead ==
    /\ pc = "poll" /\ poll.started /\ poll.poll_ms = 0
    /\ \A delta \in Deltas : delta < poll.interval
    /\ usb = << <<"read", poll.in_addr, poll.interval>> >> /\ ev.what = "skip"

\* C29: the accumulated time at which a read is attempted is about 75% of
\* the polling period: no step puts a read off once three quarters of a
\* period of 4 ms or more have passed.
C29_TargetBelowInterval ==
    (pc = "poll" /\ poll.started /\ poll.interval >= 4)
    => poll.poll_ms < (3 * poll.interval) \div 4

\* the buffer the next read is written to
Written(p) == IF p.odd THEN "odd" ELSE "even"

\* C30: the buffer a read is written to is never the one the stored previous
\* report views: prev_report views the even buffer exactly when the next read
\* goes to the odd one; the two change together, and only in a step that
\* yields a report that differs from the previous one.
C30_DoubleBuffer ==
    [][(pc = "poll" /\ dev.int0_endpoint_in.ok)
       => LET p == PollState IN
          /\ p.prev_report.buf # Written(p)
          /\ poll'.started
             => /\ poll'.prev_report.buf # Written(poll')
                /\ Written(poll') # Written(p)
                   <=> poll'.prev_report.buf # p.prev_report.buf
                /\ Written(poll') # Written(p)
                   => /\ usb' # <<>>
                      /\ ev'.what \in {"bits", "bytes"}
                      /\ poll'.prev_report.buf = Written(p)
                      /\ StoredNext # Stored]_vars

\* two changed reports have been yielded: the second read went to the even
\* buffer, and the next read goes to the odd one again
C30_SwappedTwice ==
    /\ pc = "poll" /\ poll.started /\ poll.odd
    /\ poll.prev_report.buf = "even"
    /\ poll.data_even # poll.data_odd
    /\ \E i \in DOMAIN poll.data_even : poll.data_even[i] # 0

\* what the program keeps between two steps of the polling loop, the
\* throttle's accumulator aside: the InputDevice, main's locals, the
\* generator's locals
KeptBetweenSteps(d, g, p) == <<d, g, [p EXCEPT !.poll_ms = 0]>>

\* C31: timed-out reads are counted: a read of the polling loop that times
\* out adds one to a counter the session layer can see, so the step changes
\* something the program keeps.
C31_TimeoutsCounted ==
    [][(ReadEnds("timeout") /\ pc' = "poll")
       => KeptBetweenSteps(dev', gui', poll') # KeptBetweenSteps(dev, gui, PollState)]_vars

---------------------------------------------------------------------------
\* Properties of the normalizers (SpecParse)

\* the normalizer of kind t has been applied
Normalized(t) == Called("normalize") /\ parse.arg.dev_type = t

\* the buttons among ms that are set in the value returned
Pressed(ms) == {m \in ms : BitSet(parse.ret.v, m)}

\* C32: for every value of the SwitchPro face-button byte the normalized
\* value has exactly one of A, B, X, Y set when the byte is 0x01, 0x02, 0x04
\* or 0x08, and none of them for any other value.
C32_OneFaceButton ==
    Normalized(TYPE_SWITCH_PRO)
    => /\ parse.ret.st = "ok"
       /\ Cardinality(Pressed({A, B, X, Y}))
            = IF parse.arg.d[1] \in {1, 2, 4, 8} THEN 1 ELSE 0

\* the byte 0x41 (the bit of Y together with the bit of R) was normalized: R
\* is set and no face button
C32_FaceBitWithOther ==
    /\ Normalized(TYPE_SWITCH_PRO)
    /\ parse.arg.d[1] = \H41
    /\ Pressed({A, B, X, Y, R}) = {R}

\* C37: no AdafruitSNES and no 8BitDoZero2 report gives LEFT together with
\* RIGHT or UP together with DOWN; an AdafruitSNES axis byte sets a direction
\* only at 0x00 or 0xFF, and the 8BitDoZero2 hat byte sets direction bits
\* only for the values 0..7.
C37_Directions ==
    /\ (Normalized(TYPE_ADAFRUIT_SNES) \/ Normalized(TYPE_8BITDO_ZERO2))
       => /\ parse.ret.st = "ok"
          /\ ~({LEFT, RIGHT} \subseteq Pressed({LEFT, RIGHT}))
          /\ ~({UP, DOWN} \subseteq Pressed({UP, DOWN}))
    /\ Normalized(TYPE_ADAFRUIT_SNES)
       => /\ Pressed({LEFT, RIGHT}) # {} => parse.arg.d[1] \in {0, \Hff}
          /\ Pressed({UP, DOWN}) # {} => parse.arg.d[2] \in {0, \Hff}
    /\ Normalized(TYPE_8BITDO_ZERO2)
       => (Pressed({UP, DOWN, LEFT, RIGHT}) # {} => parse.arg.d[3] \in 0..7)

\* an AdafruitSNES report with the axis bytes 0x01 and 0xFF was normalized:
\* DOWN alone is set
C37_NearTheEdge ==
    /\ Normalized(TYPE_ADAFRUIT_SNES)
    /\ parse.arg.d[1] = 1 /\ parse.arg.d[2] = \Hff
    /\ Pressed({UP, DOWN, LEFT, RIGHT}) = {DOWN}

---------------------------------------------------------------------------
\* Properties of read_configuration on unknown sub-descriptors (SpecParse)

\* read_configuration has a branch for the sub-descriptor d
Recognized(d) ==
    \/ d[1] * 256 + d[2] \in {\H0902, \H0904, \H0705}
    \/ parse.arg.bDeviceClass = 0 /\ d[2] = \H21

\* C33: a well-framed sub-descriptor whose tag read_configuration does not
\* recognize is passed over: the outcome, the configs list and every
\* interface's endpoint and HID lists are those of the stream without it.
C33_UnknownIgnored ==
    (Called("read_configuration") /\ parse.arg.parts # <<>>)
    => parse.ret
         = read_slices(SelectSeq(parse.arg.parts, Recognized), 1,
                       parse.arg.bDeviceClass, <<<<5, 1, 9, 5>>, <<5, 1, 9, 5>>>>, "ok",
                       [st |-> "ok", configs |-> <<>>, interfaces |-> <<>>, fetched |-> 0])

\* an interface association and an audio endpoint stood between an interface
\* descriptor and its endpoint, which was attached to the interface
C33_UnknownBetween ==
    /\ Called("read_configuration")
    /\ Len(parse.arg.parts) = 4
    /\ parse.arg.parts[1][2] = 4
    /\ ~Recognized(parse.arg.parts[2]) /\ ~Recognized(parse.arg.parts[3])
    /\ parse.arg.parts[2] # parse.arg.parts[3]
    /\ IsEndpoint(4)
    /\ parse.ret.st = "ok"
    /\ Len(parse.ret.interfaces) = 1
    /\ Len(parse.ret.interfaces[1].endpoint) = 1

---------------------------------------------------------------------------
\* Properties of the HID report descriptor parser's cursor (SpecParse)

\* the tag and type bits of a prefix byte
TagType(prefix) == prefix - (prefix % 4)

\* the buffer parsed is one item: a prefix and the payload its size code
\* stands for
OneItem ==
    /\ Called("HIDReportDesc")
    /\ Len(parse.arg.data) >= 1
    /\ Len(parse.arg.data) = 1 + Payload(parse.arg.data[1] % 4)
    /\ TagType(parse.arg.data[1]) \in {\H14, \H94}

\* C34: an item of size code 0, 1, 2 or 3 has a payload of 0, 1, 2 or 4
\* bytes and the cursor moves on by 1 plus that length: a buffer that is one
\* such item is parsed as one item, and no byte of its payload is taken for
\* the prefix of another item.
C34_PayloadSkipped ==
    OneItem
    => /\ parse.ret.st = "ok"
       /\ parse.ret.cursor = Len(parse.arg.data)
       /\ parse.ret.items = IF TagType(parse.arg.data[1]) = \H14 THEN 0 ELSE 1

\* the state of the parser after k passes of its loop over the buffer parsed
After(k) ==
    hid_loop(parse.arg.data,
             [st |-> "ok", cursor |-> 0, has_page |-> FALSE, items |-> 0, done |-> FALSE],
             0, k)

\* C35: the parser ends on every input: each item moves the cursor forward,
\* at most len(data) items are processed, and parsing stops when the cursor
\* reaches the end of the buffer.
C35_Terminates ==
    (Called("HIDReportDesc") /\ parse.arg.data # <<>>)
    => /\ parse.ret.done
       /\ parse.ret.cursor <= Len(parse.arg.data)
       /\ parse.ret.st = "ok" => parse.ret.cursor = Len(parse.arg.data)
       /\ \A k \in 0..(Len(parse.arg.data) - 1) :
            ~After(k).done
            => /\ After(k).cursor < Len(parse.arg.data)
               /\ After(k + 1).st = "ok" => After(k + 1).cursor > After(k).cursor
               /\ After(k + 1).st # "ok" => After(k + 1).done
               /\ After(k + 1).cursor = Len(parse.arg.data) => After(k + 1).done

\* four items of size 0 were parsed: the loop made len(data) passes and
\* returned at the end of the buffer
C35_AsManyItemsAsBytes ==
    /\ Called("HIDReportDesc")
    /\ Len(parse.arg.data) = MaxReport
    /\ \A n \in 1..MaxReport : parse.arg.data[n] = \Hc0
    /\ parse.ret.st = "ok" /\ parse.ret.items = MaxReport

---------------------------------------------------------------------------
\* Properties of the polling loop on reports of any length (SpecPoll)

\* C36: whatever the kind of the device and the length of the report a read
\* returns, a step of the polling loop yields a value or None, or lets a USB
\* error pass; it fails with no other error.
C36_ShortReportsTolerated ==
    [][(pc = "poll" /\ ev'.what = "except")
       => ev'.data \in {"USBError", "USBTimeoutError"}]_vars

---------------------------------------------------------------------------
\* Properties of the polling period (SpecParse)

\* C38: for every speed and every bInterval of 1 to 16 (1 to 255 at low and
\* full speed) the polling period is computed and is at least 1 ms, so that
\* no read is made with a timeout of 0 ms.
C38_IntervalAtLeastOne ==
    Called("poll_interval") => parse.ret.st = "ok" /\ parse.ret.interval >= 1

---------------------------------------------------------------------------
\* Properties of a scan that meets an unreadable device descriptor (SpecScan)

\* the step of the scan at hand could not read or validate the device
\* descriptor of the device at position fi
DescriptorFailed == pc = "find" /\ fi <= Len(bus) /\ probe'.fp = <<>>

\* the invocation ended with `return None`, none of its transfers having failed
ReturnedNone == pc = "returned" /\ clean /\ scan_result = NoResult

\* C39: a step of the scan whose device descriptor cannot be read or
\* validated adds nothing to the fingerprint cache and goes on to the next
\* device; and an invocation that ends with None, none of its transfers
\* having failed, has probed every device whose fingerprint was not in the
\* cache when it began, so that a device left out of the cache is probed
\* again and classified once its descriptor reads correctly.
C39_FailedNotCached ==
    /\ [][DescriptorFailed
          => /\ device_cache' = device_cache
             /\ fi' = fi + 1
             /\ ~probe'.classified]_vars
    /\ [](ReturnedNone
          => \A i \in 1..Len(bus) :
               Fingerprint(bus[i]) \notin cache0
               => Fingerprint(bus[i]) \in device_cache)

---------------------------------------------------------------------------
\* Properties of the stream of button states (SpecPoll)

\* the kinds whose reports are normalized to a button state
NormalizingKinds == {TYPE_SWITCH_PRO, TYPE_ADAFRUIT_SNES, TYPE_8BITDO_ZERO2, TYPE_XINPUT}

\* this iteration of main's loop is given a button state, and one was given
\* to an earlier iteration of the same connection
NextButtonState ==
    /\ pc = "poll"
    /\ dev.dev_type \in NormalizingKinds
    /\ gui.need_LF
    /\ ev'.what = "bits"

\* C40: within one connection of a normalizing kind, a button state yielded
\* by the event stream differs from the button state yielded before it.
C40_ButtonStateChanged ==
    [][NextButtonState => gui'.prev # gui.prev]_vars

\* C40 as amended: within one connection of a normalizing kind, a button
\* state is yielded only for a report whose filtered bytes differ from those
\* of the report yielded before it; its value may equal the one before, and
\* main updates the display for it exactly when the value differs.
C40_ReportChanged ==
    [][NextButtonState
       => /\ Bytes(poll'.prev_report, poll') # Bytes(poll.prev_report, poll)
          /\ ev'.shown <=> gui'.prev # gui.prev]_vars

\* a button state equal to the one before it was yielded and not displayed
C40_SameStateTwice ==
    /\ pc = "poll"
    /\ dev.dev_type \in NormalizingKinds
    /\ ev.what = "bits"
    /\ ~ev.shown
    /\ poll.started
    /\ normalize(dev.dev_type, Bytes(poll.prev_report, poll)).v = gui.prev

====
